---- MODULE Spec2Model ----
(***************************************************************************)
(* Model of ConvertAgent's frontend.  First the progress-stream consumer   *)
(* (src/components/ProgressPanel.vue): one component instance, its         *)
(* EventSource connection, the frames the backend pushes, the delayed      *)
(* close scheduled by setTimeout, reset() and the mount/unmount hooks.     *)
(* Then the rendering of messages, the upload form, the template wizard    *)
(* (src/components/TemplateMode.vue), App, the ContentEditor and the       *)
(* FilePreview, each with a specification of its own over the same         *)
(* variables.                                                              *)
(***************************************************************************)
EXTENDS Naturals, Sequences, FiniteSets

\* The environment (frames emitted by the backend, transport errors, reset()
\* calls) acts only while fewer than MaxOps operations have been performed.
MaxOps == 6

VARIABLES
  steps,         \* ref([]): the ProgressEvents shown in the timeline
  isProcessing,  \* ref(false)
  isComplete,    \* ref(false)
  hasError,      \* ref(false)
  eventSource,   \* let eventSource = null: "null" or the handle "es"
  conn,          \* the EventSource object: "none" (not created), "open", "closed"
  timers,        \* pending setTimeout callbacks, oldest first; each entry is
                 \* the number of the job whose complete event scheduled it
  mounted,       \* "created" (setup ran), "mounted", "unmounted"
  job,           \* number of start events handled so far
  closeCalls,    \* number of eventSource.close() invocations
  openCalls,     \* number of new EventSource(...) invocations
  closings,      \* number of close() invocations that found the connection open
  hist           \* the operations performed so far, in order

\* State beyond the progress panel instance.
VARIABLES
  stale,         \* the ProgressPanel instances unmounted and replaced by a
                 \* newer one: for each its handle, its connection and the
                 \* number of its setTimeout callbacks still pending
  message,       \* the text handed to formatMessage / formatContent, as
                 \* the pieces it is made of
  stepHtml,      \* v-html of a step: formatMessage(step.message)
  chatHtml,      \* v-html of a chat message: formatContent(message.content)
  templateFile,          \* TemplateMode: ref(null)
  contentFile,           \* TemplateMode: ref(null)
  selectedFormat,        \* TemplateMode: ref('word')
  additionalInstruction, \* TemplateMode: ref('')
  emitted,       \* the payloads of the 'process' events TemplateMode emitted
  tmCalls,       \* number of processTemplate() calls
  loading,       \* App: ref(false)
  messages,      \* App: ref([])
  requests       \* App: POST /api/process-with-template requests in flight

\* State of the wizard (TemplateMode.vue); templateFile and selectedFormat
\* above are refs of it too.
VARIABLES
  currentStep,      \* ref(1)
  templatePath,     \* ref('')
  templateStyles,   \* ref({ headings: [], body: [] })
  contentBlocks,    \* ref([])
  analyzing,        \* ref(false)
  analyzeError,     \* ref('')
  analyzeRequests,  \* POST /api/analyze-template requests in flight: the
                    \* template file each carries
  generateRequests, \* POST /api/process-structured requests in flight
  wizardOps,        \* number of operations of the wizard so far
  did               \* the last operation of the wizard

\* State of App beyond loading and messages, and the browser's storage.
VARIABLES
  apiKey,           \* ref('')
  agentReady,       \* ref(false)
  selectedProvider, \* ref('openai')
  selectedModel,    \* ref('')
  localStorage,     \* the items convertagent_api_key, convertagent_provider
                    \* and convertagent_model; "null" for an item not stored
  initRequests,     \* POST /api/init requests of initAgent in flight
  autoInitRequests, \* POST /api/init requests of autoInitAgent in flight
  appMounted,       \* App's onMounted hook has read the storage
  appOps,           \* number of operations of App so far
  appDid            \* the last operation of App

\* State of the block editor of the wizard's second step (ContentEditor).
VARIABLES
  editorCreated,    \* setup() of the ContentEditor has run
  availableStyles,  \* props.availableStyles
  modelValue,       \* props.modelValue: the array the parent binds by v-model
  editorBlocks,     \* the editor's own ref contentBlocks
  shared,           \* contentBlocks.value and props.modelValue are one and
                    \* the same array object
  queued,           \* the watcher callbacks the scheduler has queued, in
                    \* the order they were queued
  editorOps,        \* number of user actions and parent updates so far
  editorDid         \* the last operation of the editor

\* State of the preview dialog (FilePreview.vue) and of the two refs its
\* parent binds to its props.
VARIABLES
  previewVisible,   \* parent: ref(false), bound to props.visible
  previewFile,      \* parent: ref(null), bound to props.file
  previewLoading,   \* FilePreview: loading = ref(false)
  fileName,         \* ref('')
  fileSize,         \* ref(0)
  fileExtension,    \* ref('')
  fileType,         \* ref('')
  previewUrl,       \* ref(''): 0, or the number of the object URL it holds
  textContent,      \* ref('')
  renderedMarkdown, \* ref('')
  pendingLoads,     \* the loadPreview calls awaiting file.text(): the file
                    \* of each
  urlsCreated,      \* number of URL.createObjectURL calls; the n-th call
                    \* returns the URL numbered n
  revoked,          \* the object URLs passed to URL.revokeObjectURL
  lastSelected,     \* the file the parent passed most recently
  previewOps,       \* number of user actions on the preview so far
  previewDid        \* the last operation of the preview

jobvars  == <<steps, isProcessing, isComplete, hasError>>
connvars == <<eventSource, conn, closeCalls, closings>>
panelvars == <<steps, isProcessing, isComplete, hasError, eventSource, conn,
               timers, mounted, job, closeCalls, openCalls, closings, hist>>
fmtvars == <<message, stepHtml, chatHtml>>
tmvars == <<templateFile, contentFile, selectedFormat, additionalInstruction,
            emitted, tmCalls>>
appvars == <<loading, messages, requests>>
wizardvars == <<currentStep, templatePath, templateStyles, contentBlocks,
                analyzing, analyzeError, analyzeRequests, generateRequests,
                wizardOps, did>>
\* What the handlers of one ProgressPanel instance leave alone.
agentvars == <<apiKey, agentReady, selectedProvider, selectedModel,
               localStorage, initRequests, autoInitRequests, appMounted,
               appOps, appDid>>
editorvars == <<editorCreated, availableStyles, modelValue, editorBlocks,
                shared, queued, editorOps, editorDid>>
previewvars == <<previewVisible, previewFile, previewLoading, fileName, fileSize,
                 fileExtension, fileType, previewUrl, textContent,
                 renderedMarkdown, pendingLoads, urlsCreated, revoked,
                 lastSelected, previewOps, previewDid>>
beyondPanel == <<stale, fmtvars, tmvars, appvars, wizardvars, agentvars, editorvars, previewvars>>
vars == <<steps, isProcessing, isComplete, hasError, eventSource, conn, timers,
          mounted, job, closeCalls, openCalls, closings, hist,
          stale, message, stepHtml, chatHtml, templateFile, contentFile, selectedFormat,
          additionalInstruction, emitted, tmCalls, loading, messages, requests,
          currentStep, templatePath, templateStyles, contentBlocks, analyzing,
          analyzeError, analyzeRequests, generateRequests, wizardOps, did,
          apiKey, agentReady, selectedProvider, selectedModel, localStorage,
          initRequests, autoInitRequests, appMounted, appOps, appDid,
          editorCreated, availableStyles, modelValue, editorBlocks, shared,
          queued, editorOps, editorDid,
          previewVisible, previewFile, previewLoading, fileName, fileSize,
          fileExtension, fileType, previewUrl, textContent, renderedMarkdown,
          pendingLoads, urlsCreated, revoked, lastSelected, previewOps,
          previewDid>>

EventTypes == {"start", "step", "complete", "error"}

\* The frames the backend can push: a JSON object with a type field (one of
\* the four recognised or another one), or text that is not JSON.
FrameKinds == EventTypes \cup {"ping", "notjson"}

\* The timestamp the backend stamps on the next frame it emits.
Now == Len(hist) + 1

Frame(kind) == [kind |-> kind, timestamp |-> Now]

\* JSON.parse(event.data): throws on text that is not JSON, otherwise yields
\* the object with its type and timestamp.
ParseThrows(frame) == frame.kind = "notjson"

Parse(frame) == [type |-> frame.kind, timestamp |-> frame.timestamp]

Op(name, kind, tag) == [op |-> name, kind |-> kind, timestamp |-> Now, job |-> tag]

Budget == Len(hist) < MaxOps

\* null where a File is expected.
Null == [null |-> TRUE]

Init ==
  /\ steps = <<>>
  /\ isProcessing = FALSE
  /\ isComplete = FALSE
  /\ hasError = FALSE
  /\ eventSource = "null"
  /\ conn = "none"
  /\ timers = <<>>
  /\ mounted = "created"
  /\ job = 0
  /\ closeCalls = 0
  /\ openCalls = 0
  /\ closings = 0
  /\ hist = <<>>
  /\ stale = <<>>
  /\ message = <<>>
  /\ stepHtml = <<>>
  /\ chatHtml = <<>>
  /\ templateFile = "null"
  /\ contentFile = "null"
  /\ selectedFormat = "word"
  /\ additionalInstruction = ""
  /\ emitted = <<>>
  /\ tmCalls = 0
  /\ loading = FALSE
  /\ messages = <<>>
  /\ requests = <<>>
  /\ currentStep = 1
  /\ templatePath = ""
  /\ templateStyles = [headings |-> <<>>, body |-> <<>>]
  /\ contentBlocks = <<>>
  /\ analyzing = FALSE
  /\ analyzeError = ""
  /\ analyzeRequests = <<>>
  /\ generateRequests = <<>>
  /\ wizardOps = 0
  /\ did = "setup"
  /\ apiKey = ""
  /\ agentReady = FALSE
  /\ selectedProvider = "openai"
  /\ selectedModel = ""
  /\ localStorage = [api_key |-> "null", provider |-> "null", model |-> "null"]
  /\ initRequests = <<>>
  /\ autoInitRequests = <<>>
  /\ appMounted = FALSE
  /\ appOps = 0
  /\ appDid = "setup"
  /\ editorCreated = FALSE
  /\ availableStyles = [headings |-> <<>>, body |-> <<>>]
  /\ modelValue = <<>>
  /\ editorBlocks = <<>>
  /\ shared = FALSE
  /\ queued = <<>>
  /\ editorOps = 0
  /\ editorDid = "none"
  /\ previewVisible = FALSE
  /\ previewFile = Null
  /\ previewLoading = FALSE
  /\ fileName = <<>>
  /\ fileSize = 0
  /\ fileExtension = ""
  /\ fileType = ""
  /\ previewUrl = 0
  /\ textContent = <<>>
  /\ renderedMarkdown = <<>>
  /\ pendingLoads = <<>>
  /\ urlsCreated = 0
  /\ revoked = {}
  /\ lastSelected = Null
  /\ previewOps = 0
  /\ previewDid = "setup"

\* Variant: the class gives a finished job priority over a failed one.
statusClassCompleteFirst ==
  IF isComplete THEN "status-complete"
  ELSE IF hasError THEN "status-error"
  ELSE IF isProcessing THEN "status-processing"
  ELSE "status-idle"

\* computed statusClass
statusClass ==
  IF hasError THEN "status-error"
  ELSE IF isComplete THEN "status-complete"
  ELSE IF isProcessing THEN "status-processing"
  ELSE "status-idle"

\* computed statusText; the four labels of the source (a cross mark with
\* "shibai", a check mark with "wancheng", arrows with "chulizhong", a pause
\* sign with "dengdai") are written by their meaning.
statusText ==
  IF hasError THEN "failed"
  ELSE IF isComplete THEN "done"
  ELSE IF isProcessing THEN "in progress"
  ELSE "waiting"

\* if (eventSource) { eventSource.close() }: close() on a closed EventSource
\* leaves it closed.
GuardedClose ==
  IF eventSource # "null"
  THEN /\ conn' = "closed"
       /\ closeCalls' = closeCalls + 1
       /\ closings' = closings + (IF conn = "open" THEN 1 ELSE 0)
  ELSE UNCHANGED <<conn, closeCalls, closings>>

connectProgressStream ==
  /\ eventSource' = "es"
  /\ conn' = "open"
  /\ openCalls' = openCalls + 1
  /\ UNCHANGED <<closeCalls, closings>>

onMounted ==
  /\ mounted = "created"
  /\ mounted' = "mounted"
  /\ connectProgressStream
  /\ hist' = Append(hist, Op("mount", "-", job))
  /\ UNCHANGED beyondPanel
  /\ UNCHANGED <<jobvars, timers, job>>

\* Variant: the start case pushes without emptying the list first.
CaseStartAppends(data) ==
  /\ steps' = Append(steps, data)
  /\ isProcessing' = TRUE
  /\ isComplete' = FALSE
  /\ hasError' = FALSE
  /\ job' = job + 1
  /\ UNCHANGED <<connvars, timers>>

CaseStart(data) ==
  /\ steps' = Append(<<>>, data)
  /\ isProcessing' = TRUE
  /\ isComplete' = FALSE
  /\ hasError' = FALSE
  /\ job' = job + 1
  /\ UNCHANGED <<connvars, timers>>

\* Variant: the step case uses unshift instead of push.
CaseStepUnshift(data) ==
  /\ steps' = <<data>> \o steps
  /\ UNCHANGED <<isProcessing, isComplete, hasError, job, connvars, timers>>

CaseStep(data) ==
  /\ steps' = Append(steps, data)
  /\ UNCHANGED <<isProcessing, isComplete, hasError, job, connvars, timers>>

\* Variant: the complete case replaces the list by the final event.
CaseCompleteReplaces(data) ==
  /\ steps' = <<data>>
  /\ isProcessing' = FALSE
  /\ isComplete' = TRUE
  /\ timers' = Append(timers, job)
  /\ UNCHANGED <<hasError, job, connvars>>

\* Variant: the complete case leaves isProcessing set.
CaseCompleteStillProcessing(data) ==
  /\ steps' = Append(steps, data)
  /\ isComplete' = TRUE
  /\ timers' = Append(timers, job)
  /\ UNCHANGED <<isProcessing, hasError, job, connvars>>

CaseComplete(data) ==
  /\ steps' = Append(steps, data)
  /\ isProcessing' = FALSE
  /\ isComplete' = TRUE
  /\ timers' = Append(timers, job)
  /\ UNCHANGED <<hasError, job, connvars>>

\* Variant: the error case closes after the same delay as the complete case.
CaseErrorDelayedClose(data) ==
  /\ steps' = Append(steps, data)
  /\ isProcessing' = FALSE
  /\ hasError' = TRUE
  /\ timers' = Append(timers, job)
  /\ UNCHANGED <<isComplete, job, connvars>>

\* Variant: the error case leaves isProcessing set.
CaseErrorStillProcessing(data) ==
  /\ steps' = Append(steps, data)
  /\ hasError' = TRUE
  /\ GuardedClose
  /\ UNCHANGED <<isProcessing, isComplete, job, eventSource, timers>>

CaseError(data) ==
  /\ steps' = Append(steps, data)
  /\ isProcessing' = FALSE
  /\ hasError' = TRUE
  /\ GuardedClose
  /\ UNCHANGED <<isComplete, job, eventSource, timers>>

\* Variant: a frame that is not handled marks the job as failed.
DiscardMarksError ==
  /\ hasError' = TRUE
  /\ isProcessing' = FALSE
  /\ UNCHANGED <<steps, isComplete, job, connvars, timers>>

\* No case of the switch matches, or JSON.parse threw and the catch block
\* logged the error.
Discard == UNCHANGED <<jobvars, job, connvars, timers>>

Handle(frame) ==
  IF ParseThrows(frame)
  THEN Discard
  ELSE LET data == Parse(frame) IN
       CASE data.type = "start"    -> CaseStart(data)
         [] data.type = "step"     -> CaseStep(data)
         [] data.type = "complete" -> CaseComplete(data)
         [] data.type = "error"    -> CaseError(data)
         [] OTHER                  -> Discard

\* eventSource.onmessage: a message event is dispatched only while the
\* EventSource is not closed.
onmessage ==
  \E kind \in FrameKinds :
    /\ Budget
    /\ conn = "open"
    /\ Handle(Frame(kind))
    /\ hist' = Append(hist, Op("message", kind, job))
    /\ UNCHANGED beyondPanel
    /\ UNCHANGED <<mounted, openCalls>>

\* The backend emits a frame after the consumer's EventSource was closed:
\* nothing is dispatched to onmessage.
Lost ==
  \E kind \in FrameKinds :
    /\ Budget
    /\ conn = "closed"
    /\ hist' = Append(hist, Op("lost", kind, job))
    /\ UNCHANGED beyondPanel
    /\ UNCHANGED <<jobvars, job, connvars, timers, mounted, openCalls>>

\* Variant: the transport-error handler reconnects after closing.
onerrorReconnects ==
  /\ Budget
  /\ conn = "open"
  /\ closeCalls' = closeCalls + 1
  /\ closings' = closings + 1
  /\ eventSource' = "es"
  /\ conn' = "open"
  /\ openCalls' = openCalls + 1
  /\ hist' = Append(hist, Op("onerror", "-", job))
  /\ UNCHANGED beyondPanel
  /\ UNCHANGED <<jobvars, job, timers, mounted>>

\* Variant: the transport-error handler closes but keeps the handle.
onerrorKeepsHandle ==
  /\ Budget
  /\ conn = "open"
  /\ GuardedClose
  /\ hist' = Append(hist, Op("onerror", "-", job))
  /\ UNCHANGED beyondPanel
  /\ UNCHANGED <<jobvars, job, eventSource, timers, mounted, openCalls>>

\* Variant: the transport-error handler also ends the processing phase.
onerrorStopsProcessing ==
  /\ Budget
  /\ conn = "open"
  /\ GuardedClose
  /\ eventSource' = IF eventSource # "null" THEN "null" ELSE eventSource
  /\ isProcessing' = FALSE
  /\ hist' = Append(hist, Op("onerror", "-", job))
  /\ UNCHANGED beyondPanel
  /\ UNCHANGED <<steps, isComplete, hasError, job, timers, mounted, openCalls>>

onerror ==
  /\ Budget
  /\ conn = "open"
  /\ GuardedClose
  /\ eventSource' = IF eventSource # "null" THEN "null" ELSE eventSource
  /\ hist' = Append(hist, Op("onerror", "-", job))
  /\ UNCHANGED beyondPanel
  /\ UNCHANGED <<jobvars, job, timers, mounted, openCalls>>

\* Variant: the callback closes only when no start was handled since it was
\* scheduled.
TimerFireSameJob ==
  /\ timers # <<>>
  /\ timers' = Tail(timers)
  /\ IF Head(timers) = job THEN GuardedClose
                            ELSE UNCHANGED <<conn, closeCalls, closings>>
  /\ hist' = Append(hist, Op("timer", "-", Head(timers)))
  /\ UNCHANGED beyondPanel
  /\ UNCHANGED <<jobvars, job, eventSource, mounted, openCalls>>

\* The callback of setTimeout(..., 3000) scheduled by a complete event.
TimerFire ==
  /\ timers # <<>>
  /\ timers' = Tail(timers)
  /\ GuardedClose
  /\ hist' = Append(hist, Op("timer", "-", Head(timers)))
  /\ UNCHANGED beyondPanel
  /\ UNCHANGED <<jobvars, job, eventSource, mounted, openCalls>>

\* Variant: reset() also closes the connection.
resetClosing ==
  /\ Budget
  /\ mounted = "mounted"
  /\ steps' = <<>>
  /\ isProcessing' = FALSE
  /\ isComplete' = FALSE
  /\ hasError' = FALSE
  /\ GuardedClose
  /\ hist' = Append(hist, Op("reset", "-", job))
  /\ UNCHANGED beyondPanel
  /\ UNCHANGED <<job, eventSource, timers, mounted, openCalls>>

reset ==
  /\ Budget
  /\ mounted = "mounted"
  /\ steps' = <<>>
  /\ isProcessing' = FALSE
  /\ isComplete' = FALSE
  /\ hasError' = FALSE
  /\ hist' = Append(hist, Op("reset", "-", job))
  /\ UNCHANGED beyondPanel
  /\ UNCHANGED <<job, connvars, timers, mounted, openCalls>>

\* Variant: the unmount hook does not close the connection.
onUnmountedNoClose ==
  /\ mounted = "mounted"
  /\ mounted' = "unmounted"
  /\ hist' = Append(hist, Op("unmount", "-", job))
  /\ UNCHANGED beyondPanel
  /\ UNCHANGED <<jobvars, job, connvars, timers, openCalls>>

onUnmounted ==
  /\ mounted = "mounted"
  /\ mounted' = "unmounted"
  /\ GuardedClose
  /\ hist' = Append(hist, Op("unmount", "-", job))
  /\ UNCHANGED beyondPanel
  /\ UNCHANGED <<jobvars, job, eventSource, timers, openCalls>>

Next ==
  \/ onMounted
  \/ onmessage
  \/ Lost
  \/ onerror
  \/ TimerFire
  \/ reset
  \/ onUnmounted

\* The event loop runs every timer callback that is due.
FairSpec == Init /\ [][Next]_vars /\ WF_vars(TimerFire)

Spec == Init /\ [][Next]_vars

(***************************************************************************)
(* formatMessage (ProgressPanel) and formatContent (ChatBox)               *)
(*                                                                         *)
(* A text is a sequence of characters.  "D" stands for the document emoji  *)
(* that opens a file link and "NL" for the line break; the markup a        *)
(* replacement inserts is kept as one element per literal piece; "BT"    *)
(* stands for the backtick.                                                *)
(***************************************************************************)
\* Number of pieces a message is made of.
MaxParts == 5

\* The pieces messages are made of: "D [", "](", ")", a letter, a line
\* break, "]", a backtick and a letter followed by "](".
Parts ==
  { <<"D", " ", "[">>, <<"]", "(">>, <<")">>, <<"a">>, <<"NL">>, <<"]">>,
    <<"BT">>, <<"a", "]", "(">> }

RECURSIVE Text(_)
Text(pieces) ==
  IF pieces = <<>> THEN <<>> ELSE Head(pieces) \o Text(Tail(pieces))

\* The length of the longest run of characters other than stop that starts
\* at position i: what [^stop]+ takes.
RECURSIVE RunLen(_, _, _)
RunLen(s, i, stop) ==
  IF i > Len(s) \/ s[i] = stop THEN 0 ELSE 1 + RunLen(s, i + 1, stop)

At(s, i) == IF i >= 1 /\ i <= Len(s) THEN s[i] ELSE "EOF"

\* The regular expression D \[([^\]]+)\]\(([^)]+)\) tried at position i.
MatchLink(s, i) ==
  LET l == RunLen(s, i + 3, "]")
      p == RunLen(s, i + 5 + l, ")")
  IN [ok |-> /\ At(s, i) = "D" /\ At(s, i + 1) = " " /\ At(s, i + 2) = "["
             /\ l >= 1
             /\ At(s, i + 3 + l) = "]" /\ At(s, i + 4 + l) = "("
             /\ p >= 1
             /\ At(s, i + 5 + l + p) = ")",
      label |-> SubSeq(s, i + 3, i + 2 + l),
      path |-> SubSeq(s, i + 5 + l, i + 4 + l + p),
      end |-> i + 5 + l + p]

\* Variant: the replacement uses $1 for the href and $2 for the text.
LinkMarkupSwapped(label, path) ==
  <<"<a href=\"", "http://localhost:8765">> \o label
    \o <<"\" target=\"_blank\" class=\"file-link\">", "D", " ">> \o path
    \o <<"</a>">>

\* The replacement text: an anchor whose href is the backend origin followed
\* by $2 and whose text is the emoji, a space and $1.
LinkMarkup(label, path) ==
  <<"<a href=\"", "http://localhost:8765">> \o path
    \o <<"\" target=\"_blank\" class=\"file-link\">", "D", " ">> \o label
    \o <<"</a>">>

\* text.replace(/D \[([^\]]+)\]\(([^)]+)\)/g, ...) from position i on.
RECURSIVE ReplaceLinksFrom(_, _)
ReplaceLinksFrom(s, i) ==
  IF i > Len(s) THEN <<>>
  ELSE LET m == MatchLink(s, i) IN
       IF m.ok
       THEN LinkMarkup(m.label, m.path) \o ReplaceLinksFrom(s, m.end + 1)
       ELSE <<s[i]>> \o ReplaceLinksFrom(s, i + 1)

ReplaceLinks(s) == ReplaceLinksFrom(s, 1)

\* .replace(/\n/g, '<br>')
ReplaceNewlines(s) ==
  [i \in 1..Len(s) |-> IF s[i] = "NL" THEN "<br>" ELSE s[i]]

formatMessage(msg) == ReplaceNewlines(ReplaceLinks(msg))

\* The delimiter d at position i.
MatchesAt(s, i, d) == \A k \in 1..Len(d) : At(s, i + k - 1) = d[k]

\* .replace(/d([^c]+)d/g, open + '$1' + close) from position i on.
RECURSIVE ReplaceDelimitedFrom(_, _, _, _, _, _)
ReplaceDelimitedFrom(s, i, d, c, open, close) ==
  IF i > Len(s) THEN <<>>
  ELSE LET n == RunLen(s, i + Len(d), c) IN
       IF MatchesAt(s, i, d) /\ n >= 1 /\ MatchesAt(s, i + Len(d) + n, d)
       THEN <<open>> \o SubSeq(s, i + Len(d), i + Len(d) + n - 1) \o <<close>>
              \o ReplaceDelimitedFrom(s, i + 2 * Len(d) + n, d, c, open, close)
       ELSE <<s[i]>> \o ReplaceDelimitedFrom(s, i + 1, d, c, open, close)

Fence == <<"BT", "BT", "BT">>

\* text.includes of the code fence
IncludesFence(s) == \E i \in 1..Len(s) : MatchesAt(s, i, Fence)

\* the first element of text.split at the code fence
BeforeFence(s) ==
  LET i == CHOOSE k \in 1..Len(s) :
             MatchesAt(s, k, Fence) /\ \A j \in 1..k - 1 : ~MatchesAt(s, j, Fence)
  IN SubSeq(s, 1, i - 1)

Whitespace == {" ", "NL"}

\* String.prototype.trim
RECURSIVE Trim(_)
Trim(s) ==
  IF s = <<>> THEN s
  ELSE IF Head(s) \in Whitespace THEN Trim(Tail(s))
  ELSE IF s[Len(s)] \in Whitespace THEN Trim(SubSeq(s, 1, Len(s) - 1))
  ELSE s

\* The summary kept of a content with a code block; the fallback text of
\* the source (Chinese for "processing finished") is one element.
Summary(content) ==
  IF IncludesFence(content)
  THEN LET text == Trim(BeforeFence(content)) IN
       IF text = <<>> THEN <<"processing finished">> ELSE text
  ELSE content

formatContent(content) ==
  LET linked == ReplaceLinks(Summary(content))
      broken == ReplaceNewlines(linked)
      coded == ReplaceDelimitedFrom(broken, 1, <<"BT">>, "BT", "<code>", "</code>")
  IN ReplaceDelimitedFrom(coded, 1, <<"*", "*">>, "*", "<strong>", "</strong>")

\* A message one piece longer is rendered by the panel and by the chat box.
render ==
  \E piece \in Parts :
    /\ Len(message) < MaxParts
    /\ message' = Append(message, piece)
    /\ stepHtml' = formatMessage(Text(message'))
    /\ chatHtml' = formatContent(Text(message'))
    /\ UNCHANGED <<panelvars, stale, tmvars, appvars, wizardvars, agentvars, editorvars, previewvars>>

NextFormat == render

SpecFormat == Init /\ [][NextFormat]_vars

(***************************************************************************)
(* The panel under App's v-if="agentReady": logout unmounts the instance,  *)
(* a later login creates a new one                                         *)
(***************************************************************************)
\* Number of times the panel is created again after an unmount.
MaxRemounts == 1

\* agentReady becomes true again: Vue creates a new ProgressPanel and runs
\* its setup(); the old instance's closures keep its own eventSource.
remount ==
  /\ Budget
  /\ mounted = "unmounted"
  /\ Len(stale) < MaxRemounts
  /\ stale' = Append(stale, [eventSource |-> eventSource, conn |-> conn,
                             timers |-> Len(timers)])
  /\ steps' = <<>>
  /\ isProcessing' = FALSE
  /\ isComplete' = FALSE
  /\ hasError' = FALSE
  /\ eventSource' = "null"
  /\ conn' = "none"
  /\ timers' = <<>>
  /\ mounted' = "created"
  /\ job' = 0
  /\ closeCalls' = 0
  /\ openCalls' = 0
  /\ closings' = 0
  /\ hist' = Append(hist, Op("setup", "-", 0))
  /\ UNCHANGED <<fmtvars, tmvars, appvars, wizardvars, agentvars, editorvars, previewvars>>

\* A setTimeout callback of a replaced instance: if (eventSource)
\* eventSource.close() on that instance's own handle.
StaleTimerFire ==
  \E i \in 1..Len(stale) :
    /\ stale[i].timers > 0
    /\ stale' = [stale EXCEPT
         ![i].timers = @ - 1,
         ![i].conn = IF stale[i].eventSource # "null" THEN "closed" ELSE @]
    /\ hist' = Append(hist, Op("staletimer", "-", 0))
    /\ UNCHANGED <<jobvars, eventSource, conn, timers, mounted, job,
                   closeCalls, openCalls, closings, fmtvars, tmvars, appvars,
                   wizardvars, agentvars, editorvars, previewvars>>

\* Lost, for the start of a next job only: a frame that is not dispatched
\* has the same (no) effect whatever its type.
LostStart ==
  /\ Budget
  /\ conn = "closed"
  /\ hist' = Append(hist, Op("lost", "start", job))
  /\ UNCHANGED beyondPanel
  /\ UNCHANGED <<jobvars, job, connvars, timers, mounted, openCalls>>

NextApp ==
  \/ onMounted
  \/ onmessage
  \/ LostStart
  \/ onerror
  \/ TimerFire
  \/ reset
  \/ onUnmounted
  \/ remount
  \/ StaleTimerFire

SpecApp == Init /\ [][NextApp]_vars

(***************************************************************************)
(* TemplateMode (the upload form) and App.processWithTemplate              *)
(***************************************************************************)
\* Number of processTemplate() calls one behaviour may contain.
MaxCalls == 2

\* The files the user can pick, the three radio values and the texts typed
\* into the instruction box.
TemplateFiles == {"template.docx"}
ContentFiles == {"content.pdf"}
outputFormats == {"word", "markdown", "latex"}
Instructions == {"", "keep the images"}

\* Variant: the content file is not required.
canProcessWithoutContent == templateFile # "null" /\ selectedFormat # ""

\* computed canProcess: all three values are truthy.
canProcess ==
  templateFile # "null" /\ contentFile # "null" /\ selectedFormat # ""

handleTemplateSelected ==
  \E file \in TemplateFiles :
    /\ templateFile' = file
    /\ UNCHANGED <<contentFile, selectedFormat, additionalInstruction,
                   emitted, tmCalls, appvars, panelvars, stale, fmtvars,
                   wizardvars, agentvars, editorvars, previewvars>>

handleContentSelected ==
  \E file \in ContentFiles :
    /\ contentFile' = file
    /\ UNCHANGED <<templateFile, selectedFormat, additionalInstruction,
                   emitted, tmCalls, appvars, panelvars, stale, fmtvars,
                   wizardvars, agentvars, editorvars, previewvars>>

\* v-model="selectedFormat" on the radio buttons.
selectFormat ==
  \E format \in outputFormats :
    /\ selectedFormat' = format
    /\ UNCHANGED <<templateFile, contentFile, additionalInstruction,
                   emitted, tmCalls, appvars, panelvars, stale, fmtvars,
                   wizardvars, agentvars, editorvars, previewvars>>

\* v-model="additionalInstruction" on the textarea.
typeInstruction ==
  \E text \in Instructions :
    /\ additionalInstruction' = text
    /\ UNCHANGED <<templateFile, contentFile, selectedFormat,
                   emitted, tmCalls, appvars, panelvars, stale, fmtvars,
                   wizardvars, agentvars, editorvars, previewvars>>

\* The FormData of the POST.
FormData(data) ==
  [template_file |-> data.templateFile,
   content_file |-> data.contentFile,
   output_format |-> data.outputFormat,
   additional_instruction |->
     IF data.additionalInstruction = "" THEN "" ELSE data.additionalInstruction]

\* App.processWithTemplate up to its await: loading, the user message, the
\* request.
processWithTemplate(data) ==
  /\ loading' = TRUE
  /\ messages' = Append(messages,
       [role |-> "user",
        content |-> <<data.templateFile, data.contentFile, data.outputFormat>>])
  /\ requests' = Append(requests, FormData(data))

Payload ==
  [templateFile |-> templateFile,
   contentFile |-> contentFile,
   outputFormat |-> selectedFormat,
   additionalInstruction |-> additionalInstruction]

\* processTemplate(): the function itself, whatever the state of the button
\* that is bound to it; the 'process' event runs App's listener at once.
processTemplate ==
  /\ tmCalls < MaxCalls
  /\ tmCalls' = tmCalls + 1
  /\ IF canProcess
     THEN /\ emitted' = Append(emitted, Payload)
          /\ processWithTemplate(Payload)
     ELSE UNCHANGED <<emitted, appvars>>
  /\ UNCHANGED <<templateFile, contentFile, selectedFormat,
                 additionalInstruction, panelvars, stale, fmtvars, wizardvars, agentvars, editorvars, previewvars>>

RemoveAt(seq, i) == SubSeq(seq, 1, i - 1) \o SubSeq(seq, i + 1, Len(seq))

\* Variant: the result message is put in front of the list.
processRepliedPrepends(i, outcome) ==
  /\ requests' = RemoveAt(requests, i)
  /\ messages' =
       CASE outcome = "success" ->
              <<[role |-> "system", content |-> <<"ok">>]>> \o messages
         [] outcome = "throws" ->
              <<[role |-> "error", content |-> <<"failed">>]>> \o messages
         [] OTHER -> messages
  /\ loading' = FALSE

\* App.processWithTemplate after its await: the reply reports success, or
\* reports none, or the request throws; finally loading is reset.
processReplied(i, outcome) ==
  /\ requests' = RemoveAt(requests, i)
  /\ messages' =
       CASE outcome = "success" ->
              Append(messages, [role |-> "system", content |-> <<"ok">>])
         [] outcome = "throws" ->
              Append(messages, [role |-> "error", content |-> <<"failed">>])
         [] OTHER -> messages
  /\ loading' = FALSE

processSettles ==
  \E i \in 1..Len(requests), outcome \in {"success", "nosuccess", "throws"} :
    /\ processReplied(i, outcome)
    /\ UNCHANGED <<tmvars, panelvars, stale, fmtvars, wizardvars, agentvars, editorvars, previewvars>>

NextTemplate ==
  \/ handleTemplateSelected
  \/ handleContentSelected
  \/ selectFormat
  \/ typeInstruction
  \/ processTemplate
  \/ processSettles

SpecTemplate == Init /\ [][NextTemplate]_vars

(***************************************************************************)
(* TemplateMode.vue: the three-step wizard (upload and analyse a template, *)
(* edit content blocks, generate the document)                             *)
(***************************************************************************)
\* Number of operations (user actions and settled requests) of the wizard.
MaxWizardOps == 9

\* The template files the user can pick.
WizardFiles == {"a.docx", "b.docx"}

\* What the backend answers for a template it analysed successfully:
\* response.data.template_path and response.data.styles.  The second
\* template defines no heading style.
AnalysisOf(file) ==
  IF file = "a.docx"
  THEN [template_path |-> "/tmp/a.docx",
        styles |-> [headings |-> <<"Title">>, body |-> <<"Normal">>]]
  ELSE [template_path |-> "/tmp/b.docx",
        styles |-> [headings |-> <<>>, body |-> <<"Body Text">>]]

\* response.data.error of a reply without success ("" when it has none) and
\* the message of a request that throws.
ReportedErrors == {"", "not a Word file"}
ThrownErrors == {"Network Error"}

\* The lists the ContentEditor hands to v-model="contentBlocks": the texts
\* typed into its blocks are empty, blank, or hold a letter.
EditedBlocks ==
  { << [style_name |-> "Title", text |-> <<" ">>] >>,
    << [style_name |-> "Title", text |-> <<"x">>] >>,
    << [style_name |-> "Heading 1", text |-> <<"y">>],
       [style_name |-> "Normal", text |-> <<>>],
       [style_name |-> "Normal", text |-> <<" ", "NL">>],
       [style_name |-> "Normal", text |-> <<" ", "x", " ">>] >> }

WizardBudget == wizardOps < MaxWizardOps

\* Every operation of the wizard is counted and named.
WizardOp(name) ==
  /\ wizardOps' = wizardOps + 1
  /\ did' = name

\* b.text && b.text.trim()
NonBlank(b) == b.text # <<>> /\ Trim(b.text) # <<>>

\* computed hasContent
hasContent == \E i \in 1..Len(contentBlocks) : NonBlank(contentBlocks[i])

\* Array.prototype.filter with the predicate of hasContent
RECURSIVE FilterNonBlank(_)
FilterNonBlank(blocks) ==
  IF blocks = <<>> THEN <<>>
  ELSE IF NonBlank(Head(blocks))
  THEN <<Head(blocks)>> \o FilterNonBlank(Tail(blocks))
  ELSE FilterNonBlank(Tail(blocks))

\* What is neither state of the wizard nor a prop of it.
beyondWizard == <<panelvars, stale, fmtvars, contentFile, additionalInstruction,
                  emitted, tmCalls, appvars, agentvars, editorvars, previewvars>>

\* handleTemplateSelected of the wizard: the FileUploadSimple of step 1.
handleTemplateSelectedWizard ==
  \E file \in WizardFiles :
    /\ WizardBudget
    /\ currentStep = 1
    /\ templateFile' = file
    /\ analyzeError' = ""
    /\ WizardOp("handleTemplateSelected")
    /\ UNCHANGED <<currentStep, templatePath, templateStyles, contentBlocks,
                   selectedFormat, analyzing, analyzeRequests,
                   generateRequests, beyondWizard>>

\* analyzeTemplate up to its await.  The button that calls it exists in
\* step 1 and is disabled while analyzing; without a template file it is
\* disabled too and the function returns at once.
analyzeTemplate ==
  /\ WizardBudget
  /\ currentStep = 1
  /\ ~analyzing
  /\ WizardOp("analyzeTemplate")
  /\ IF templateFile = "null"
     THEN UNCHANGED <<analyzing, analyzeError, analyzeRequests>>
     ELSE /\ analyzing' = TRUE
          /\ analyzeError' = ""
          /\ analyzeRequests' = Append(analyzeRequests, templateFile)
  /\ UNCHANGED <<currentStep, templateFile, templatePath, templateStyles,
                 contentBlocks, selectedFormat, generateRequests, beyondWizard>>

\* Variant: a reply without success still takes the wizard to step 2.
analyzeRepliedAlwaysAdvances(file, success, error) ==
  /\ templatePath' = AnalysisOf(file).template_path
  /\ templateStyles' = AnalysisOf(file).styles
  /\ contentBlocks' = << [style_name |-> "Heading 1", text |-> <<>>] >>
  /\ currentStep' = 2
  /\ analyzeError' = IF success THEN analyzeError
                     ELSE IF error # "" THEN error ELSE "analysis failed"

\* analyzeTemplate after its await, the request answered: the branches on
\* response.data.success.  The fallback text of the source (Chinese for
\* "analysis failed") is written by its meaning.
analyzeReplied(file, success, error) ==
  IF success
  THEN /\ templatePath' = AnalysisOf(file).template_path
       /\ templateStyles' = AnalysisOf(file).styles
       /\ LET defaultHeading ==
                IF Len(templateStyles'.headings) > 0
                THEN templateStyles'.headings[1] ELSE "Heading 1"
          IN contentBlocks' = << [style_name |-> defaultHeading, text |-> <<>>] >>
       /\ currentStep' = 2
       /\ UNCHANGED analyzeError
  ELSE /\ analyzeError' = IF error # "" THEN error ELSE "analysis failed"
       /\ UNCHANGED <<templatePath, templateStyles, contentBlocks, currentStep>>

\* analyzeTemplate after its await, the request failed: the catch block.
analyzeThrew(error) ==
  /\ analyzeError' = error
  /\ UNCHANGED <<templatePath, templateStyles, contentBlocks, currentStep>>

\* An analyze-template request settles; finally analyzing is reset.
analyzeSettles ==
  \E i \in 1..Len(analyzeRequests) :
    /\ analyzeRequests' = RemoveAt(analyzeRequests, i)
    /\ \/ /\ analyzeReplied(analyzeRequests[i], TRUE, "")
          /\ WizardOp("analyze:success")
       \/ \E error \in ReportedErrors :
            /\ analyzeReplied(analyzeRequests[i], FALSE, error)
            /\ WizardOp("analyze:failure")
       \/ \E error \in ThrownErrors :
            /\ analyzeThrew(error)
            /\ WizardOp("analyze:throws")
    /\ analyzing' = FALSE
    /\ UNCHANGED <<templateFile, selectedFormat, generateRequests, beyondWizard>>

\* v-model="contentBlocks" on the ContentEditor of step 2.
updateModelValue ==
  \E blocks \in EditedBlocks :
    /\ WizardBudget
    /\ currentStep = 2
    /\ contentBlocks' = blocks
    /\ WizardOp("update:modelValue")
    /\ UNCHANGED <<currentStep, templateFile, templatePath, templateStyles,
                   selectedFormat, analyzing, analyzeError, analyzeRequests,
                   generateRequests, beyondWizard>>

\* The link of step 2: @click="currentStep = 1".
reselectTemplate ==
  /\ WizardBudget
  /\ currentStep = 2
  /\ currentStep' = 1
  /\ WizardOp("reselect")
  /\ UNCHANGED <<templateFile, templatePath, templateStyles, contentBlocks,
                 selectedFormat, analyzing, analyzeError, analyzeRequests,
                 generateRequests, beyondWizard>>

\* The FormData of the process-structured request.
StructuredRequest ==
  [template_path |-> templatePath,
   structured_content |-> [elements |-> FilterNonBlank(contentBlocks)],
   output_format |-> selectedFormat]

\* generateDocument up to its await.  The button that calls it exists in
\* step 2 and is disabled while the loading prop is true; without content
\* it is disabled too and the function returns at once.
generateDocument ==
  /\ WizardBudget
  /\ currentStep = 2
  /\ ~loading
  /\ WizardOp("generateDocument")
  /\ IF ~hasContent
     THEN UNCHANGED generateRequests
     ELSE generateRequests' = Append(generateRequests, StructuredRequest)
  /\ UNCHANGED <<currentStep, templateFile, templatePath, templateStyles,
                 contentBlocks, selectedFormat, analyzing, analyzeError,
                 analyzeRequests, beyondWizard>>

\* A process-structured request settles: the reply reports success, or
\* reports none, or the request throws (logged).
generateSettles ==
  \E i \in 1..Len(generateRequests),
     outcome \in {"success", "nosuccess", "throws"} :
    /\ generateRequests' = RemoveAt(generateRequests, i)
    /\ currentStep' = IF outcome = "success" THEN 3 ELSE currentStep
    /\ WizardOp("generate:" \o outcome)
    /\ UNCHANGED <<templateFile, templatePath, templateStyles, contentBlocks,
                   selectedFormat, analyzing, analyzeError, analyzeRequests,
                   beyondWizard>>

\* The button of step 3.
resetAll ==
  /\ WizardBudget
  /\ currentStep = 3
  /\ currentStep' = 1
  /\ templateFile' = "null"
  /\ templatePath' = ""
  /\ templateStyles' = [headings |-> <<>>, body |-> <<>>]
  /\ contentBlocks' = <<>>
  /\ WizardOp("resetAll")
  /\ UNCHANGED <<selectedFormat, analyzing, analyzeError, analyzeRequests,
                 generateRequests, beyondWizard>>

NextWizard ==
  \/ handleTemplateSelectedWizard
  \/ analyzeTemplate
  \/ analyzeSettles
  \/ updateModelValue
  \/ reselectTemplate
  \/ generateDocument
  \/ generateSettles
  \/ resetAll

SpecWizard == Init /\ [][NextWizard]_vars

(***************************************************************************)
(* App: configuration of the agent (initAgent, autoInitAgent, logout) and  *)
(* processWithTemplate                                                     *)
(***************************************************************************)
\* Number of operations (user actions and settled requests) of App.
MaxAppOps == 7

\* What the user types into the API-key field, the provider radio buttons
\* and the model names.
ApiKeys == {"", "sk-1"}
Providers == {"openai", "zhipu"}
Models == {"", "glm-4"}

NothingStored == [api_key |-> "null", provider |-> "null", model |-> "null"]

\* What an earlier session of the page left in the storage.
StoredConfigs ==
  { [api_key |-> "sk-0", provider |-> "zhipu", model |-> "glm-4"],
    [api_key |-> "sk-0", provider |-> "null", model |-> "null"] }

\* The payloads TemplateMode emits with 'process'.
ProcessData ==
  { [templateFile |-> "template.docx", contentFile |-> "content.pdf",
     outputFormat |-> "word", additionalInstruction |-> ""] }

AppBudget == appOps < MaxAppOps

\* Every operation of App is counted and named.
AppOp(name) ==
  /\ appOps' = appOps + 1
  /\ appDid' = name

\* What is not state of App.
beyondApp == <<panelvars, stale, fmtvars, tmvars, wizardvars, editorvars, previewvars>>

\* The page is loaded in a browser that holds the configuration of an
\* earlier session.
storedEarlier ==
  \E config \in StoredConfigs :
    /\ ~appMounted
    /\ appOps = 0
    /\ localStorage' = config
    /\ AppOp("storedEarlier")
    /\ UNCHANGED <<apiKey, agentReady, selectedProvider, selectedModel,
                   initRequests, autoInitRequests, appMounted, appvars, beyondApp>>

\* The FormData of POST /api/init: the model is appended when not empty.
InitForm(key, provider, model) ==
  [api_key |-> key, provider |-> provider,
   model |-> IF model # "" THEN model ELSE "null"]

\* onMounted after loadProviders: the stored configuration is read and, if
\* there is a key, autoInitAgent sends its request.  The watcher of
\* selectedProvider runs after the hook has set the refs and empties
\* selectedModel when the provider changed.
onMountedApp ==
  /\ ~appMounted
  /\ appMounted' = TRUE
  /\ AppOp("onMounted")
  /\ LET savedKey == localStorage.api_key
         savedProvider == localStorage.provider
         savedModel == localStorage.model
         provider == IF savedProvider \notin {"null", ""}
                     THEN savedProvider ELSE "openai"
         model == IF savedModel \notin {"null", ""} THEN savedModel ELSE ""
     IN IF savedKey \notin {"null", ""}
        THEN /\ apiKey' = savedKey
             /\ selectedProvider' = provider
             /\ selectedModel' = IF provider # selectedProvider THEN "" ELSE model
             /\ autoInitRequests' =
                  Append(autoInitRequests, InitForm(savedKey, provider, model))
        ELSE UNCHANGED <<apiKey, selectedProvider, selectedModel, autoInitRequests>>
  /\ UNCHANGED <<agentReady, localStorage, initRequests, appvars, beyondApp>>

\* v-model="apiKey" on the field of the configuration section (v-if on
\* not agentReady).
typeApiKey ==
  \E key \in ApiKeys :
    /\ AppBudget
    /\ ~agentReady
    /\ apiKey' = key
    /\ AppOp("typeApiKey")
    /\ UNCHANGED <<agentReady, selectedProvider, selectedModel, localStorage,
                   initRequests, autoInitRequests, appMounted, appvars, beyondApp>>

\* v-model="selectedProvider"; watch(selectedProvider) empties selectedModel.
selectProvider ==
  \E provider \in Providers :
    /\ AppBudget
    /\ ~agentReady
    /\ provider # selectedProvider
    /\ selectedProvider' = provider
    /\ selectedModel' = ""
    /\ AppOp("selectProvider")
    /\ UNCHANGED <<apiKey, agentReady, localStorage, initRequests,
                   autoInitRequests, appMounted, appvars, beyondApp>>

\* v-model="selectedModel"
typeModel ==
  \E model \in Models :
    /\ AppBudget
    /\ ~agentReady
    /\ selectedModel' = model
    /\ AppOp("typeModel")
    /\ UNCHANGED <<apiKey, agentReady, selectedProvider, localStorage,
                   initRequests, autoInitRequests, appMounted, appvars, beyondApp>>

\* initAgent up to its await.
initAgentCall ==
  IF apiKey = ""
  THEN UNCHANGED <<loading, initRequests>>
  ELSE /\ loading' = TRUE
       /\ initRequests' =
            Append(initRequests, InitForm(apiKey, selectedProvider, selectedModel))

\* The button of the configuration section, disabled while loading (and
\* without a key, when initAgent returns at once).
initAgent ==
  /\ AppBudget
  /\ ~agentReady
  /\ ~loading
  /\ initAgentCall
  /\ AppOp("initAgent")
  /\ UNCHANGED <<apiKey, agentReady, selectedProvider, selectedModel,
                 localStorage, autoInitRequests, appMounted, messages,
                 requests, beyondApp>>

\* @keyup.enter="initAgent" on the API-key field.
initAgentEnter ==
  /\ AppBudget
  /\ ~agentReady
  /\ initAgentCall
  /\ AppOp("initAgent")
  /\ UNCHANGED <<apiKey, agentReady, selectedProvider, selectedModel,
                 localStorage, autoInitRequests, appMounted, messages,
                 requests, beyondApp>>

\* Variant: a reply of initAgent without success also makes the agent ready.
initRepliedAlwaysReady(outcome) ==
  /\ agentReady' = (outcome # "throws" \/ agentReady)
  /\ IF outcome = "success"
     THEN /\ localStorage' = [api_key |-> apiKey, provider |-> selectedProvider,
                              model |-> selectedModel]
          /\ messages' = Append(messages, [role |-> "system", content |-> <<"ready">>])
     ELSE UNCHANGED <<localStorage, messages>>
  /\ loading' = FALSE

\* initAgent after its await: the reply reports success, or reports none,
\* or the request throws (alert); finally loading is reset.
initReplied(outcome) ==
  /\ IF outcome = "success"
     THEN /\ agentReady' = TRUE
          /\ localStorage' = [api_key |-> apiKey, provider |-> selectedProvider,
                              model |-> selectedModel]
          /\ messages' = Append(messages, [role |-> "system", content |-> <<"ready">>])
     ELSE UNCHANGED <<agentReady, localStorage, messages>>
  /\ loading' = FALSE

initSettles ==
  \E i \in 1..Len(initRequests), outcome \in {"success", "nosuccess", "throws"} :
    /\ initRequests' = RemoveAt(initRequests, i)
    /\ initReplied(outcome)
    /\ AppOp("init:" \o outcome)
    /\ UNCHANGED <<apiKey, selectedProvider, selectedModel, autoInitRequests,
                   appMounted, requests, beyondApp>>

\* autoInitAgent after its await: the catch block removes the three items.
autoInitReplied(outcome) ==
  CASE outcome = "success" ->
         /\ agentReady' = TRUE
         /\ messages' = Append(messages, [role |-> "system", content |-> <<"ready">>])
         /\ UNCHANGED localStorage
    [] outcome = "throws" ->
         /\ localStorage' = NothingStored
         /\ UNCHANGED <<agentReady, messages>>
    [] OTHER -> UNCHANGED <<agentReady, messages, localStorage>>

autoInitSettles ==
  \E i \in 1..Len(autoInitRequests),
     outcome \in {"success", "nosuccess", "throws"} :
    /\ autoInitRequests' = RemoveAt(autoInitRequests, i)
    /\ autoInitReplied(outcome)
    /\ AppOp("autoInit:" \o outcome)
    /\ UNCHANGED <<apiKey, selectedProvider, selectedModel, initRequests,
                   appMounted, loading, requests, beyondApp>>

\* Variant: logout also ends the loading phase.
logoutResetsLoading(confirmed) ==
  IF confirmed
  THEN /\ localStorage' = NothingStored
       /\ apiKey' = ""
       /\ selectedProvider' = "openai"
       /\ selectedModel' = ""
       /\ agentReady' = FALSE
       /\ messages' = <<>>
       /\ loading' = FALSE
  ELSE UNCHANGED <<localStorage, apiKey, selectedProvider, selectedModel,
                   agentReady, messages, loading>>

\* logout, with the answer to confirm()
logoutCall(confirmed) ==
  IF confirmed
  THEN /\ localStorage' = NothingStored
       /\ apiKey' = ""
       /\ selectedProvider' = "openai"
       /\ selectedModel' = ""
       /\ agentReady' = FALSE
       /\ messages' = <<>>
       /\ UNCHANGED loading
  ELSE UNCHANGED <<localStorage, apiKey, selectedProvider, selectedModel,
                   agentReady, messages, loading>>

\* The button of the header (v-if on agentReady).
logout ==
  \E confirmed \in BOOLEAN :
    /\ AppBudget
    /\ agentReady
    /\ logoutCall(confirmed)
    /\ AppOp(IF confirmed THEN "logout:confirmed" ELSE "logout:declined")
    /\ UNCHANGED <<initRequests, autoInitRequests, appMounted, requests, beyondApp>>

\* TemplateMode, shown when the agent is ready, emits 'process' (its button
\* is disabled while loading): processWithTemplate runs up to its await.
processRequested ==
  \E data \in ProcessData :
    /\ AppBudget
    /\ agentReady
    /\ ~loading
    /\ processWithTemplate(data)
    /\ AppOp("processWithTemplate")
    /\ UNCHANGED <<apiKey, agentReady, selectedProvider, selectedModel,
                   localStorage, initRequests, autoInitRequests, appMounted,
                   beyondApp>>

\* A process-with-template request settles.
processAnswered ==
  \E i \in 1..Len(requests), outcome \in {"success", "nosuccess", "throws"} :
    /\ processReplied(i, outcome)
    /\ AppOp("process:" \o outcome)
    /\ UNCHANGED <<apiKey, agentReady, selectedProvider, selectedModel,
                   localStorage, initRequests, autoInitRequests, appMounted,
                   beyondApp>>

NextAgent ==
  \/ storedEarlier
  \/ onMountedApp
  \/ typeApiKey
  \/ selectProvider
  \/ typeModel
  \/ initAgent
  \/ initAgentEnter
  \/ initSettles
  \/ autoInitSettles
  \/ logout
  \/ processRequested
  \/ processAnswered

SpecAgent == Init /\ [][NextAgent]_vars

(***************************************************************************)
(* ContentEditor: the list of content blocks of the wizard's second step,  *)
(* kept in step with the parent's v-model by two deep watchers             *)
(***************************************************************************)
\* Number of user actions and parent updates of the editor, and the number
\* of blocks the user adds up to.
MaxEditorOps == 4
MaxBlocks == 3

\* The style lists a parent passes as available-styles.
StyleSets ==
  { [headings |-> <<>>, body |-> <<>>],
    [headings |-> << [name |-> "Title"] >>, body |-> << [name |-> "Body Text"] >>] }

\* { style_name: 'Heading 1', text: '' }
DefaultBlock == [style_name |-> "Heading 1", text |-> <<>>]

\* The arrays a parent passes as modelValue: empty, equal to the default
\* list, one block with text, two blocks.
ParentValues ==
  { <<>>,
    << DefaultBlock >>,
    << [style_name |-> "Title", text |-> <<"x">>] >>,
    << [style_name |-> "Title", text |-> <<"x">>],
       [style_name |-> "Body Text", text |-> <<>>] >> }

\* What the user types into the textarea of a block.
TypedTexts == { <<>>, <<"x">> }

EditorBudget == editorOps < MaxEditorOps

\* A user action or a parent update: they happen between two flushes of the
\* scheduler, when no watcher callback is queued.
EditorOp(name) ==
  /\ editorOps' = editorOps + 1
  /\ editorDid' = name

beyondEditor == <<panelvars, stale, fmtvars, tmvars, appvars, wizardvars, agentvars,
                  previewvars>>

\* queueJob: a callback that is already queued is not queued again.
Enqueue(q, w) == IF \E i \in 1..Len(q) : q[i] = w THEN q ELSE Append(q, w)

\* A mutation of the editor's array (push, splice, an assignment to a field
\* of a block): the deep watcher of contentBlocks is triggered, and the deep
\* watcher of props.modelValue too when the prop is the same array.
Mutated(blocks) ==
  /\ editorBlocks' = blocks
  /\ modelValue' = IF shared THEN blocks ELSE modelValue
  /\ queued' = IF shared
               THEN Enqueue(Enqueue(queued, "contentBlocks"), "modelValue")
               ELSE Enqueue(queued, "contentBlocks")

\* setup: const contentBlocks = ref(props.modelValue.length > 0 ? ... : [...])
\* The two watchers are lazy: nothing is queued.
setupEditor ==
  \E styles \in StyleSets, value \in ParentValues :
    /\ ~editorCreated
    /\ editorCreated' = TRUE
    /\ availableStyles' = styles
    /\ modelValue' = value
    /\ editorBlocks' = IF Len(value) > 0 THEN value ELSE << DefaultBlock >>
    /\ shared' = (Len(value) > 0)
    /\ editorDid' = "setup"
    /\ UNCHANGED <<queued, editorOps, beyondEditor>>

\* The style addBlock gives the new block.
defaultStyle(styleName) ==
  IF styleName = "Heading 1" /\ Len(availableStyles.headings) > 0
  THEN availableStyles.headings[1].name
  ELSE IF styleName = "Normal" /\ Len(availableStyles.body) > 0
  THEN availableStyles.body[1].name
  ELSE styleName

\* addBlock, called by the two buttons of the template; the user stops
\* adding at MaxBlocks blocks.
addBlock ==
  \E styleName \in {"Heading 1", "Normal"} :
    /\ editorCreated
    /\ EditorBudget
    /\ queued = <<>>
    /\ Len(editorBlocks) < MaxBlocks
    /\ Mutated(Append(editorBlocks,
                      [style_name |-> defaultStyle(styleName), text |-> <<>>]))
    /\ EditorOp("addBlock")
    /\ UNCHANGED <<editorCreated, availableStyles, shared, beyondEditor>>

\* Variant: deletes whatever the length of the list.
removeBlockUnguarded ==
  \E index \in 1..Len(editorBlocks) :
    /\ editorCreated
    /\ EditorBudget
    /\ queued = <<>>
    /\ Mutated(RemoveAt(editorBlocks, index))
    /\ EditorOp("removeBlock")
    /\ UNCHANGED <<editorCreated, availableStyles, shared, beyondEditor>>

\* removeBlock, called by the delete button of the block at index.
removeBlock ==
  \E index \in 1..Len(editorBlocks) :
    /\ editorCreated
    /\ EditorBudget
    /\ queued = <<>>
    /\ IF Len(editorBlocks) > 1
       THEN Mutated(RemoveAt(editorBlocks, index))
       ELSE UNCHANGED <<editorBlocks, modelValue, queued>>
    /\ EditorOp("removeBlock")
    /\ UNCHANGED <<editorCreated, availableStyles, shared, beyondEditor>>

\* v-model="block.text" of the textarea of the block at index.
typeText ==
  \E index \in 1..Len(editorBlocks), text \in TypedTexts :
    /\ editorCreated
    /\ EditorBudget
    /\ queued = <<>>
    /\ text # editorBlocks[index].text
    /\ Mutated([editorBlocks EXCEPT ![index].text = text])
    /\ EditorOp("typeText")
    /\ UNCHANGED <<editorCreated, availableStyles, shared, beyondEditor>>

\* The parent assigns another array to the ref it binds by v-model: the
\* prop changes and its watcher is queued.
parentUpdate ==
  \E value \in ParentValues :
    /\ editorCreated
    /\ EditorBudget
    /\ queued = <<>>
    /\ modelValue' = value
    /\ shared' = FALSE
    /\ queued' = Enqueue(queued, "modelValue")
    /\ EditorOp("parentUpdate")
    /\ UNCHANGED <<editorCreated, availableStyles, editorBlocks, beyondEditor>>

\* watch(contentBlocks, ...): emits update:modelValue with the editor's
\* array, which the parent assigns to its ref.  Assigning the array the ref
\* already holds changes nothing; another array changes the prop.
contentBlocksWatcher ==
  /\ queued # <<>>
  /\ Head(queued) = "contentBlocks"
  /\ modelValue' = editorBlocks
  /\ shared' = TRUE
  /\ queued' = IF shared THEN Tail(queued) ELSE Enqueue(Tail(queued), "modelValue")
  /\ editorDid' = "contentBlocksWatcher"
  /\ UNCHANGED <<editorCreated, availableStyles, editorBlocks, editorOps, beyondEditor>>

\* watch(() => props.modelValue, ...): JSON.stringify compares the contents
\* of the two arrays; when they differ the editor takes the prop, or a new
\* default list for an empty prop.
modelValueWatcher ==
  /\ queued # <<>>
  /\ Head(queued) = "modelValue"
  /\ IF modelValue # editorBlocks
     THEN /\ editorBlocks' = IF Len(modelValue) > 0 THEN modelValue
                             ELSE << DefaultBlock >>
          /\ shared' = (Len(modelValue) > 0)
          /\ queued' = Enqueue(Tail(queued), "contentBlocks")
     ELSE /\ queued' = Tail(queued)
          /\ UNCHANGED <<editorBlocks, shared>>
  /\ editorDid' = "modelValueWatcher"
  /\ UNCHANGED <<editorCreated, availableStyles, modelValue, editorOps, beyondEditor>>

NextEditor ==
  \/ setupEditor
  \/ addBlock
  \/ removeBlock
  \/ typeText
  \/ parentUpdate
  \/ contentBlocksWatcher
  \/ modelValueWatcher

\* The scheduler runs every callback it has queued.
FairSpecEditor ==
  /\ Init
  /\ [][NextEditor]_vars
  /\ WF_vars(contentBlocksWatcher)
  /\ WF_vars(modelValueWatcher)

(***************************************************************************)
(* FilePreview.vue: the preview dialog of the upload form.  A load that    *)
(* reads the text of a file is suspended at await file.text() and resumes  *)
(* when the read settles; several loads can be suspended at once.          *)
(***************************************************************************)
\* Number of user actions on the preview (opening it for a file, closing).
MaxPreviewOps == 4

\* The files the user previews.  A name is given by its pieces, the dot
\* being a piece of its own; the content is what file.text() resolves with.
PreviewFiles ==
  { [name |-> <<"a", ".", "md">>, size |-> 3, content |-> <<"#", " ", "a">>],
    [name |-> <<"b", ".", "v2", ".", "MD">>, size |-> 1, content |-> <<"b">>],
    [name |-> <<"x", ".", "tex">>, size |-> 1, content |-> <<"x">>],
    [name |-> <<"n", ".", "txt">>, size |-> 0, content |-> <<>>],
    [name |-> <<"t", ".", "docx">>, size |-> 9, content |-> <<>>],
    [name |-> <<"p", ".", "PNG">>, size |-> 9, content |-> <<>>],
    [name |-> <<"notes">>, size |-> 1, content |-> <<"n">>] }

\* file.name.split('.').pop(): the pieces after the last dot.
RECURSIVE LastPart(_)
LastPart(name) ==
  IF \E i \in 1..Len(name) : name[i] = "."
  THEN LastPart(Tail(name))
  ELSE name

\* String.prototype.toLowerCase on a piece.
ToLowerCase(piece) ==
  CASE piece = "MD" -> "md"
    [] piece = "PNG" -> "png"
    [] OTHER -> piece

\* file.name.split('.').pop().toLowerCase(); the extensions of PreviewFiles
\* are one piece long.
ExtensionOf(file) ==
  LET last == LastPart(file.name)
  IN IF last = <<>> THEN "" ELSE ToLowerCase(last[1])

\* The branch loadPreview takes for an extension.
TypeOfExtension(ext) ==
  IF ext \in {"docx", "doc", "pdf"} THEN "office"
  ELSE IF ext \in {"md", "markdown"} THEN "markdown"
  ELSE IF ext \in {"tex", "latex"} THEN "latex"
  ELSE IF ext \in {"txt", "text"} THEN "text"
  ELSE IF ext \in {"jpg", "jpeg", "png", "gif", "bmp", "svg"} THEN "image"
  ELSE "unsupported"

\* The branches that await file.text().
ReadsText(type) == type \in {"markdown", "latex", "text"}

StartsWith(text, prefix) ==
  /\ Len(text) >= Len(prefix)
  /\ SubSeq(text, 1, Len(prefix)) = prefix

\* renderMarkdown on one line of text without emphasis, code, links, images
\* or list markers: only the three heading rules and the final paragraph
\* rule can match.  The rules run in the order of the source.
renderMarkdown(markdown) ==
  LET Heading(text, marks, open, end) ==
        IF StartsWith(text, marks \o <<" ">>)
        THEN <<open>> \o SubSeq(text, Len(marks) + 2, Len(text)) \o <<end>>
        ELSE text
      h3 == Heading(markdown, <<"#", "#", "#">>, "<h3>", "</h3>")
      h2 == Heading(h3, <<"#", "#">>, "<h2>", "</h2>")
      h1 == Heading(h2, <<"#">>, "<h1>", "</h1>")
  IN IF h1 = <<>> THEN <<>> ELSE <<"<p>">> \o h1 \o <<"</p>">>

PreviewBudget == previewOps < MaxPreviewOps

PreviewOp(name) ==
  /\ previewOps' = previewOps + 1
  /\ previewDid' = name

beyondPreview == <<panelvars, stale, fmtvars, tmvars, appvars, wizardvars, agentvars,
                   editorvars>>

\* loadPreview(file) up to its first await, or to its end in the branches
\* that have none.  The finally block runs when the function ends.
loadPreview(file) ==
  LET ext == ExtensionOf(file)
      type == TypeOfExtension(ext)
  IN /\ fileName' = file.name
     /\ fileSize' = file.size
     /\ fileExtension' = ext
     /\ fileType' = type
     /\ IF type \in {"office", "image"}
        THEN /\ urlsCreated' = urlsCreated + 1
             /\ previewUrl' = urlsCreated + 1
        ELSE UNCHANGED <<urlsCreated, previewUrl>>
     /\ IF ReadsText(type)
        THEN /\ pendingLoads' = Append(pendingLoads, file)
             /\ previewLoading' = TRUE
        ELSE /\ pendingLoads' = pendingLoads
             /\ previewLoading' = FALSE
     /\ UNCHANGED <<textContent, renderedMarkdown>>

\* previewTemplate / previewContent of the parent, for the file the user
\* selected; the dialog covers the two buttons while it is shown.  The prop
\* changes from null to the file, so the watcher calls loadPreview.
showPreview ==
  \E file \in PreviewFiles :
    /\ PreviewBudget
    /\ ~previewVisible
    /\ previewFile' = file
    /\ previewVisible' = TRUE
    /\ lastSelected' = file
    /\ loadPreview(file)
    /\ PreviewOp("showPreview")
    /\ UNCHANGED <<revoked, beyondPreview>>

\* A suspended loadPreview resumes after file.text() resolved: it is the
\* markdown branch that renders.  The finally block ends it.
textResolved(file) ==
  /\ textContent' = file.content
  /\ renderedMarkdown' =
       IF TypeOfExtension(ExtensionOf(file)) = "markdown"
       THEN renderMarkdown(file.content)
       ELSE renderedMarkdown
  /\ previewLoading' = FALSE
  /\ UNCHANGED fileType

\* A suspended loadPreview resumes after file.text() rejected: the catch
\* block, then the finally block.
textRejected ==
  /\ fileType' = "unsupported"
  /\ previewLoading' = FALSE
  /\ UNCHANGED <<textContent, renderedMarkdown>>

\* Any of the pending reads settles.
textSettles ==
  \E i \in 1..Len(pendingLoads), outcome \in {"resolved", "rejected"} :
    /\ IF outcome = "resolved"
       THEN textResolved(pendingLoads[i])
       ELSE textRejected
    /\ pendingLoads' = RemoveAt(pendingLoads, i)
    /\ previewDid' = outcome
    /\ UNCHANGED <<previewVisible, previewFile, fileName, fileSize, fileExtension,
                   previewUrl, urlsCreated, revoked, lastSelected, previewOps,
                   beyondPreview>>

\* close, called by the close button and by a click on the backdrop; the
\* parent answers the close event with closePreview.  The watcher sees
\* null and loads nothing.
close ==
  /\ PreviewBudget
  /\ previewVisible
  /\ revoked' = IF previewUrl # 0 THEN revoked \cup {previewUrl} ELSE revoked
  /\ previewVisible' = FALSE
  /\ previewFile' = Null
  /\ PreviewOp("close")
  /\ UNCHANGED <<previewLoading, fileName, fileSize, fileExtension, fileType,
                 previewUrl, textContent, renderedMarkdown, pendingLoads,
                 urlsCreated, lastSelected, beyondPreview>>

NextPreview ==
  \/ showPreview
  \/ textSettles
  \/ close

SpecPreview == Init /\ [][NextPreview]_vars

(***************************************************************************)
(* Reading the history                                                     *)
(***************************************************************************)
Last(h) == h[Len(h)]

\* The step appends an operation named name to the history.
Did(name) == Len(hist') = Len(hist) + 1 /\ Last(hist').op = name

\* The step is onmessage handling a frame of the given kind.
DidMsg(kind) == Did("message") /\ Last(hist').kind = kind

\* The event object a history entry's frame parses to.
EventOf(entry) == [type |-> entry.kind, timestamp |-> entry.timestamp]

\* The operations after the mount.
Run == SubSeq(hist, 2, Len(hist))

OnlyMessages == \A i \in 1..Len(Run) : Run[i].op = "message"

RunKinds == [i \in 1..Len(Run) |-> Run[i].kind]

RunEvents == [i \in 1..Len(Run) |-> EventOf(Run[i])]

IsPrefix(p, s) == Len(p) <= Len(s) /\ \A i \in 1..Len(p) : p[i] = s[i]

Happened(name, kind) ==
  \E i \in 1..Len(hist) : hist[i].op = name /\ hist[i].kind = kind

(***************************************************************************)
(* Claims                                                                  *)
(***************************************************************************)

\* C1: from the idle state, while the consumer handles start, step, step,
\* complete in that order, steps is exactly the events handled so far in
\* arrival order; isProcessing is true after the start and after each step
\* and false after the complete; after the complete isComplete is true and
\* hasError is false.
C1_StartStepStepComplete ==
  (Len(hist) >= 2 /\ OnlyMessages
     /\ IsPrefix(RunKinds, <<"start", "step", "step", "complete">>)) =>
    /\ steps = RunEvents
    /\ isProcessing = (Len(Run) < 4)
    /\ (Len(Run) = 4 => isComplete /\ ~hasError)
    /\ (Len(Run) < 4 => ~isComplete /\ ~hasError)

C1_Witness ==
  /\ OnlyMessages
  /\ RunKinds = <<"start", "step", "step", "complete">>
  /\ Len(steps) = 4
  /\ steps[2] # steps[3]
  /\ isComplete

\* C2: after start, step, error in that order hasError is true, isProcessing
\* is false, close() has been invoked exactly once, by the handler of the
\* error event itself (no invocation before it, no timer scheduled).
C2_StartStepError ==
  /\ (OnlyMessages /\ RunKinds = <<"start", "step", "error">>) =>
       /\ hasError
       /\ ~isProcessing
       /\ closeCalls = 1
       /\ conn = "closed"
       /\ timers = <<>>
  /\ (OnlyMessages /\ RunKinds = <<"start", "step">>) => closeCalls = 0

C2_Witness ==
  /\ OnlyMessages
  /\ RunKinds = <<"start", "step", "error">>
  /\ closeCalls = 1
  /\ Len(steps) = 3

\* C3: whenever a start event is handled, whatever the flags and steps were,
\* steps becomes the one-element list holding that start event, isProcessing
\* is true and isComplete and hasError are false.
C3_StartResets ==
  [][DidMsg("start") =>
       /\ steps' = <<EventOf(Last(hist'))>>
       /\ isProcessing'
       /\ ~isComplete'
       /\ ~hasError']_vars

C3_Witness ==
  /\ Len(hist) >= 4
  /\ Last(hist).op = "message"
  /\ Last(hist).kind = "start"
  /\ hist[Len(hist) - 1].op = "message"
  /\ hist[Len(hist) - 1].kind = "complete"
  /\ Happened("message", "step")
  /\ Len(steps) = 1
  /\ steps[1].timestamp = Len(hist)

\* C4: isComplete and hasError are never both true.
C4_MutuallyExclusive == ~(isComplete /\ hasError)

\* C5: a frame that is not JSON, or JSON without a recognised type, is
\* discarded: steps and the flags are unchanged and the connection stays open
\* with nothing closed or scheduled; a step event handled right after such a
\* frame is appended as usual and leaves the flags alone.
Malformed == {"notjson", "ping"}

C5_MalformedDiscarded ==
  [][/\ (DidMsg("notjson") \/ DidMsg("ping")) =>
          /\ UNCHANGED <<steps, isProcessing, isComplete, hasError>>
          /\ UNCHANGED <<eventSource, timers, closeCalls, openCalls>>
          /\ conn' = "open"
     /\ (Len(hist) > 0 /\ Last(hist).op = "message"
           /\ Last(hist).kind \in Malformed /\ DidMsg("step")) =>
          /\ steps' = Append(steps, EventOf(Last(hist')))
          /\ UNCHANGED <<isProcessing, isComplete, hasError>>]_vars

\* step, malformed frame, step: both steps recorded, still processing.
C5_Witness ==
  /\ Len(hist) >= 5
  /\ \A i \in Len(hist) - 2 .. Len(hist) : hist[i].op = "message"
  /\ hist[Len(hist) - 2].kind = "step"
  /\ hist[Len(hist) - 1].kind \in Malformed
  /\ hist[Len(hist)].kind = "step"
  /\ isProcessing
  /\ Len(steps) = 3
  /\ conn = "open"

\* C6: reset() in any phase yields the idle state and leaves the connection,
\* the handle and the pending delayed closes untouched.
C6_ResetFrame ==
  [][Did("reset") =>
       /\ steps' = <<>>
       /\ ~isProcessing'
       /\ ~isComplete'
       /\ ~hasError'
       /\ UNCHANGED <<eventSource, conn, timers, closeCalls, openCalls>>]_vars

\* reset() after a complete whose delayed close is still pending.
C6_Witness ==
  /\ Len(hist) >= 2
  /\ Last(hist).op = "reset"
  /\ hist[Len(hist) - 1].op = "message"
  /\ hist[Len(hist) - 1].kind = "complete"
  /\ timers # <<>>
  /\ conn = "open"
  /\ steps = <<>>

\* C7 as stated: once the instance is unmounted, close() has been invoked
\* exactly once.
C7_CloseInvokedOnce == mounted = "unmounted" => closeCalls = 1

\* C7 amended: the connection goes from open to closed exactly once,
\* whichever path closes it first, it is closed once the instance is
\* unmounted, and close() has then been invoked at least once; invocations
\* after the first find the connection already closed.
C7_ClosedOnce ==
  /\ closings <= 1
  /\ (conn = "closed") = (closings = 1)
  /\ closeCalls >= closings
  /\ mounted = "unmounted" => (conn = "closed" /\ closeCalls >= 1)

\* error event, then unmount: two invocations, one closing.
C7_Witness ==
  /\ mounted = "unmounted"
  /\ Happened("message", "error")
  /\ closeCalls = 2
  /\ closings = 1

\* C8: the delayed close scheduled by a complete event does not close the
\* connection when a start event has been handled since it was scheduled.
C8_StaleTimerGuarded ==
  [][(Did("timer") /\ Head(timers) < job) => UNCHANGED conn]_vars

\* C9: for a mounted consumer whose job ended with complete or error, a
\* start event the backend emits is handled: the consumer is processing
\* again with a one-element step list.
EmitsStart ==
  (Did("message") \/ Did("lost")) /\ Last(hist').kind = "start"

C9_NextJobHandled ==
  [][(mounted = "mounted" /\ (isComplete \/ hasError) /\ EmitsStart) =>
       (isProcessing' /\ Len(steps') = 1)]_vars

\* C10: a transport error closes the connection and leaves steps and the
\* flags as they were; after it no connection is opened, and isProcessing,
\* if true, stays true until reset().
C10_StreamFault ==
  [][/\ Did("onerror") =>
          /\ conn' = "closed"
          /\ UNCHANGED <<steps, isProcessing, isComplete, hasError>>
     /\ Happened("onerror", "-") =>
          /\ conn' = "closed"
          /\ openCalls' = openCalls
          /\ (isProcessing /\ ~isProcessing') => Did("reset")
          /\ ~isProcessing => ~isProcessing']_vars

\* a transport error during processing, followed by further operations.
C10_Witness ==
  /\ \E i \in 1..Len(hist) - 1 : hist[i].op = "onerror"
  /\ Happened("lost", "complete")
  /\ isProcessing
  /\ Len(steps) >= 2
  /\ conn = "closed"
  /\ openCalls = 1

\* C11: the badge shows failed whenever hasError, otherwise done whenever
\* isComplete, otherwise in-progress whenever isProcessing, otherwise
\* waiting; statusClass and statusText name the same phase.
PhaseOfClass(c) ==
  CASE c = "status-error"      -> "error"
    [] c = "status-complete"   -> "complete"
    [] c = "status-processing" -> "processing"
    [] c = "status-idle"       -> "idle"

PhaseOfText(t) ==
  CASE t = "failed"      -> "error"
    [] t = "done"        -> "complete"
    [] t = "in progress" -> "processing"
    [] t = "waiting"     -> "idle"

C11_StatusBadge ==
  /\ hasError => PhaseOfClass(statusClass) = "error"
  /\ (~hasError /\ isComplete) => PhaseOfClass(statusClass) = "complete"
  /\ (~hasError /\ ~isComplete /\ isProcessing) =>
       PhaseOfClass(statusClass) = "processing"
  /\ (~hasError /\ ~isComplete /\ ~isProcessing) =>
       PhaseOfClass(statusClass) = "idle"
  /\ PhaseOfText(statusText) = PhaseOfClass(statusClass)

\* both terminal flags set: the badge shows failed.
C11_Witness ==
  /\ hasError
  /\ isComplete
  /\ statusClass = "status-error"
  /\ PhaseOfText(statusText) = "error"

\* C12: a handled step, complete or error event appends exactly that event
\* at the end of steps; steps loses or reorders elements only by a start
\* event (then it holds just that start) or by reset() (then it is empty).
C12_AppendOnly ==
  [][/\ (DidMsg("step") \/ DidMsg("complete") \/ DidMsg("error")) =>
          steps' = Append(steps, EventOf(Last(hist')))
     /\ ~IsPrefix(steps, steps') =>
          \/ DidMsg("start") /\ steps' = <<EventOf(Last(hist'))>>
          \/ Did("reset") /\ steps' = <<>>
     /\ Len(steps') > Len(steps) =>
          /\ Did("message")
          /\ Last(hist').kind \in EventTypes
          /\ Len(steps') = Len(steps) + 1]_vars

C12_Witness ==
  /\ Len(hist) >= 4
  /\ Last(hist).op = "message"
  /\ Last(hist).kind = "error"
  /\ Len(steps) = 4
  /\ steps[1].type = "start"
  /\ steps[3].type = "complete"
  /\ steps[4] = EventOf(Last(hist))

\* A start event was handled and no complete or error event since.
InJob ==
  \E i \in 1..Len(hist) :
    /\ hist[i].op = "message" /\ hist[i].kind = "start"
    /\ \A j \in i + 1 .. Len(hist) :
         ~(hist[j].op = "message" /\ hist[j].kind \in {"complete", "error"})

\* A start event was handled and no complete or error event and no reset()
\* since.
InJobNoReset ==
  \E i \in 1..Len(hist) :
    /\ hist[i].op = "message" /\ hist[i].kind = "start"
    /\ \A j \in i + 1 .. Len(hist) :
         /\ ~(hist[j].op = "message" /\ hist[j].kind \in {"complete", "error"})
         /\ hist[j].op # "reset"

\* C13 as stated: isProcessing is true exactly when a start event has been
\* handled and no complete or error event has been handled since.
C13_ProcessingIffInJob == isProcessing = InJob

\* C13 amended: isProcessing is true exactly when a start event has been
\* handled and neither a complete or error event nor a reset() came since.
C13_ProcessingIffInJobNoReset == isProcessing = InJobNoReset

\* reset() in the middle of a job.
C13_Witness ==
  /\ InJob
  /\ ~InJobNoReset
  /\ ~isProcessing
  /\ Last(hist).op = "message"
  /\ Last(hist).kind = "step"

\* C14: the handler of a complete event does not close the connection, it
\* schedules one delayed close; and once a complete event has been handled
\* the connection is eventually closed.
C14_DelayedClose ==
  /\ [][DidMsg("complete") =>
          /\ UNCHANGED <<conn, closeCalls, eventSource>>
          /\ conn' = "open"
          /\ timers' = Append(timers, job)]_vars
  /\ (Happened("message", "complete") ~> conn = "closed")

\* closed by the timer of the complete event and by nothing else.
C14_Witness ==
  /\ Happened("message", "complete")
  /\ Last(hist).op = "timer"
  /\ conn = "closed"
  /\ closeCalls = 1
  /\ mounted = "mounted"

\* C15: an instance opens no connection before it is mounted and exactly
\* one when it is mounted; a handle always refers to that connection, and
\* once the connection has been closed it stays closed and no other is opened.
C15_OneConnection ==
  /\ openCalls = (IF mounted = "created" THEN 0 ELSE 1)
  /\ (conn = "none") = (openCalls = 0)
  /\ closings >= 1 => (conn = "closed" /\ openCalls = 1)
  /\ conn = "open" => eventSource = "es"

C15_Witness ==
  /\ mounted = "mounted"
  /\ conn = "closed"
  /\ \E i \in 1..Len(hist) - 2 : hist[i].op = "onerror"
  /\ openCalls = 1

\* C18: a step event handled in the idle phase starts a job: afterwards
\* isProcessing is true and the step is in steps.
C18_OrphanStepStartsJob ==
  [][(DidMsg("step") /\ steps = <<>> /\ ~isProcessing /\ ~isComplete
        /\ ~hasError) =>
       (isProcessing' /\ steps' = <<EventOf(Last(hist'))>>)]_vars

\* C20: a close() invoked on a connection that is already closed changes
\* neither the connection nor steps nor any flag; and once a transport error
\* has cleared the handle, close() is not invoked again.
C20_CloseIdempotent ==
  [][/\ (closeCalls' > closeCalls /\ conn = "closed") =>
          /\ conn' = "closed"
          /\ closings' = closings
          /\ UNCHANGED <<steps, isProcessing, isComplete, hasError>>
          /\ UNCHANGED <<eventSource, openCalls>>
     /\ Happened("onerror", "-") =>
          /\ eventSource = "null"
          /\ closeCalls' = closeCalls]_vars

\* error event, then the timer of an earlier complete, then unmount.
C20_Witness ==
  /\ closeCalls = 3
  /\ closings = 1
  /\ mounted = "unmounted"
  /\ hasError
  /\ isComplete

\* C17: a processTemplate() call emits 'process', and App sends the
\* request, exactly when a template file, a content file and an output
\* format are selected; the payload and the request carry the current
\* selection; a call in any other state emits nothing and changes nothing;
\* nothing else emits.
AllSelected ==
  /\ templateFile \in TemplateFiles
  /\ contentFile \in ContentFiles
  /\ selectedFormat \in outputFormats

C17_ProcessOnlyWhenComplete ==
  [][/\ tmCalls' # tmCalls =>
          /\ AllSelected =>
               /\ Len(emitted') = Len(emitted) + 1
               /\ Last(emitted').templateFile = templateFile
               /\ Last(emitted').contentFile = contentFile
               /\ Last(emitted').outputFormat = selectedFormat
               /\ Last(emitted').additionalInstruction = additionalInstruction
               /\ Len(requests') = Len(requests) + 1
               /\ Last(requests').template_file = templateFile
               /\ Last(requests').content_file = contentFile
               /\ Last(requests').output_format = selectedFormat
               /\ Last(requests').additional_instruction = additionalInstruction
          /\ ~AllSelected => UNCHANGED <<emitted, loading, messages, requests>>
          /\ UNCHANGED <<templateFile, contentFile, selectedFormat,
                         additionalInstruction>>
     /\ (emitted' # emitted \/ Len(requests') > Len(requests)) =>
          /\ tmCalls' # tmCalls
          /\ SubSeq(emitted', 1, Len(emitted)) = emitted]_vars

\* one call that emitted with an instruction, one that did not emit.
C17_Witness ==
  /\ tmCalls = 2
  /\ Len(emitted) = 1
  /\ emitted[1].templateFile = "template.docx"
  /\ emitted[1].contentFile = "content.pdf"
  /\ emitted[1].outputFormat = "latex"
  /\ emitted[1].additionalInstruction # ""

\* C19: once the instance is unmounted its connection is closed, and no
\* later step (lost frame, timer of this instance) changes steps, a flag,
\* the handle or the connection or opens a connection; an instance created
\* afterwards starts idle without a connection and opens its own when it is
\* mounted; callbacks of replaced instances leave it alone; at most one
\* connection is open over all instances.
OpenConnections ==
  (IF conn = "open" THEN 1 ELSE 0)
    + Cardinality({i \in 1..Len(stale) : stale[i].conn = "open"})

C19_Teardown ==
  /\ [](mounted = "unmounted" => conn = "closed")
  /\ [](OpenConnections <= 1)
  /\ [][/\ (mounted = "unmounted" /\ mounted' = "unmounted") =>
             UNCHANGED <<steps, isProcessing, isComplete, hasError,
                         eventSource, conn, openCalls>>
        /\ Did("staletimer") =>
             UNCHANGED <<steps, isProcessing, isComplete, hasError,
                         eventSource, conn, openCalls, closeCalls, timers>>
        /\ Did("setup") =>
             /\ steps' = <<>>
             /\ ~isProcessing' /\ ~isComplete' /\ ~hasError'
             /\ conn' = "none"
             /\ timers' = <<>>
        /\ (Did("mount") /\ Len(stale) > 0) =>
             /\ conn' = "open"
             /\ openCalls' = 1
             /\ steps' = <<>>
             /\ ~isProcessing']_vars

\* the timer of the first instance fires while the second one is processing.
C19_Witness ==
  /\ Len(stale) = 1
  /\ Last(hist).op = "staletimer"
  /\ mounted = "mounted"
  /\ conn = "open"
  /\ isProcessing
  /\ OpenConnections = 1

\* C16: in the panel's rendering of a message every file-link token is
\* replaced by an anchor whose href is the backend origin followed by the
\* token's path and whose text is the emoji, a space and the token's label;
\* the text outside the tokens is kept; line breaks become <br> after the
\* link rewrite; a message that is one token yields exactly one such anchor;
\* the chat box renders a message without backticks as the panel does.
Origin == "http://localhost:8765"

\* The position of the first x in s, 0 if there is none.
FirstIndex(s, x) ==
  IF \E i \in 1..Len(s) : s[i] = x
  THEN CHOOSE i \in 1..Len(s) : s[i] = x /\ \A j \in 1..i - 1 : s[j] # x
  ELSE 0

Unbreak(s) == [i \in 1..Len(s) |-> IF s[i] = "<br>" THEN "NL" ELSE s[i]]

\* The message a rendering stands for: each anchor read back as the token
\* with its text as label and what follows the origin in its href as path.
RECURSIVE Unformat(_)
Unformat(out) ==
  IF out = <<>> THEN <<>>
  ELSE IF Head(out) = "<a href=\""
  THEN LET a == FirstIndex(out, "\" target=\"_blank\" class=\"file-link\">")
           z == FirstIndex(out, "</a>")
       IN IF /\ Len(out) >= 2 /\ out[2] = Origin
             /\ a > 3 /\ z > a + 3
             /\ out[a + 1] = "D" /\ out[a + 2] = " "
          THEN <<"D", " ", "[">> \o Unbreak(SubSeq(out, a + 3, z - 1))
                 \o <<"]", "(">> \o Unbreak(SubSeq(out, 3, a - 1)) \o <<")">>
                 \o Unformat(SubSeq(out, z + 1, Len(out)))
          ELSE <<"malformed anchor">>
  ELSE Unbreak(<<Head(out)>>) \o Unformat(Tail(out))

\* The rendering with every anchor replaced by one mark.
RECURSIVE OutsideAnchors(_)
OutsideAnchors(out) ==
  IF out = <<>> THEN <<>>
  ELSE IF Head(out) = "<a href=\"" /\ FirstIndex(out, "</a>") > 0
  THEN <<"anchor">> \o OutsideAnchors(SubSeq(out, FirstIndex(out, "</a>") + 1, Len(out)))
  ELSE <<Head(out)>> \o OutsideAnchors(Tail(out))

\* s holds a token from position i to position k, its label ending before j.
TokenAt(s, i, j, k) ==
  /\ 1 <= i /\ i + 3 < j /\ j + 2 < k /\ k <= Len(s)
  /\ s[i] = "D" /\ s[i + 1] = " " /\ s[i + 2] = "["
  /\ \A x \in i + 3 .. j - 1 : s[x] # "]"
  /\ s[j] = "]" /\ s[j + 1] = "("
  /\ \A x \in j + 2 .. k - 1 : s[x] # ")"
  /\ s[k] = ")"

HasToken(s) ==
  \E i \in 1..Len(s) :
    /\ s[i] = "D"
    /\ \E j \in i + 4 .. Len(s) :
         /\ s[j] = "]"
         /\ \E k \in j + 3 .. Len(s) : s[k] = ")" /\ TokenAt(s, i, j, k)

Anchors(out) == Cardinality({i \in 1..Len(out) : out[i] = "<a href=\""})

C21_TerminalExcludesProcessing ==
  /\ isComplete => ~isProcessing
  /\ hasError => ~isProcessing

\* An error event after a complete event and a malformed frame: both
\* terminal flags set, not processing.
C21_Witness ==
  /\ hasError
  /\ isComplete
  /\ ~isProcessing
  /\ Happened("message", "notjson")
  /\ Last(hist).op = "message"
  /\ Last(hist).kind = "error"

(***************************************************************************)
(* Claims about the wizard                                                 *)
(***************************************************************************)
\* The step is the wizard operation named name.
WizardDid(name) == wizardOps' = wizardOps + 1 /\ did' = name

\* C22: currentStep is 1, 2 or 3 and changes only from 1 to 2 when an
\* analysis reply reports success, from 2 to 3 when a generation reply
\* reports success, from 2 to 1 by the re-select link and from 3 to 1 by
\* resetAll.
C22_StepEdges ==
  /\ [](currentStep \in {1, 2, 3})
  /\ [][currentStep' # currentStep =>
          \/ currentStep = 1 /\ currentStep' = 2 /\ WizardDid("analyze:success")
          \/ currentStep = 2 /\ currentStep' = 3 /\ WizardDid("generate:success")
          \/ currentStep = 2 /\ currentStep' = 1 /\ WizardDid("reselect")
          \/ currentStep = 3 /\ currentStep' = 1 /\ WizardDid("resetAll")]_vars

\* The refs of the wizard.
wizardRefs == <<currentStep, templateFile, templatePath, templateStyles,
                contentBlocks, selectedFormat, analyzing, analyzeError>>

\* The block list a successful analysis of file leaves: one empty block in
\* the first heading style of the template, Heading 1 if it has none.
InitialBlocks(file) ==
  LET headings == AnalysisOf(file).styles.headings
  IN << [style_name |-> IF headings = <<>> THEN "Heading 1" ELSE Head(headings),
         text |-> <<>>] >>

\* The step settles the analyze-template request for file.
AnalyzeSettled(file) ==
  /\ did' \in {"analyze:success", "analyze:failure", "analyze:throws"}
  /\ wizardOps' = wizardOps + 1
  /\ \E i \in 1..Len(analyzeRequests) :
       analyzeRequests[i] = file /\ analyzeRequests' = RemoveAt(analyzeRequests, i)

\* C23: analyzeTemplate without a template file changes nothing and sends
\* nothing; with one it sets analyzing, clears analyzeError and sends the
\* file; when the request settles analyzing is false; after a reply without
\* success or a failed request currentStep, templatePath, templateStyles and
\* contentBlocks are as before and analyzeError is the reported error; after
\* a success analyzeError is still empty and contentBlocks is one empty block
\* in the first heading style of the template, or Heading 1.
C23_AnalyzeOutcomes ==
  [][/\ (WizardDid("analyzeTemplate") /\ templateFile = "null") =>
          UNCHANGED <<wizardRefs, analyzeRequests, generateRequests>>
     /\ (WizardDid("analyzeTemplate") /\ templateFile # "null") =>
          /\ analyzing'
          /\ analyzeError' = ""
          /\ analyzeRequests' = Append(analyzeRequests, templateFile)
          /\ UNCHANGED <<currentStep, templateFile, templatePath,
                         templateStyles, contentBlocks>>
     /\ \A file \in WizardFiles :
          AnalyzeSettled(file) =>
            /\ ~analyzing'
            /\ did' \in {"analyze:failure", "analyze:throws"} =>
                 /\ UNCHANGED <<currentStep, templatePath, templateStyles,
                                contentBlocks>>
                 /\ analyzeError' \in
                      (ReportedErrors \ {""}) \cup {"analysis failed"}
                        \cup ThrownErrors
                 /\ did' = "analyze:throws" => analyzeError' \in ThrownErrors
            /\ did' = "analyze:success" =>
                 /\ analyzeError = ""
                 /\ analyzeError' = ""
                 /\ contentBlocks' = InitialBlocks(file)]_vars

\* A second analysis fails after an earlier one succeeded: the path and
\* the styles of the earlier one are kept, the error is shown.
C23_Witness ==
  /\ did = "analyze:failure"
  /\ analyzeError = "not a Word file"
  /\ ~analyzing
  /\ currentStep = 1
  /\ templatePath = "/tmp/b.docx"
  /\ contentBlocks = << [style_name |-> "Heading 1", text |-> <<>>] >>

\* C24: whenever the wizard is at step 2 or 3, templatePath and
\* templateStyles are the analysis of the file held in templateFile.
C24_AnalysisOfCurrentFile ==
  currentStep \in {2, 3} =>
    /\ templateFile \in WizardFiles
    /\ templatePath = AnalysisOf(templateFile).template_path
    /\ templateStyles = AnalysisOf(templateFile).styles

\* s is the list blocks without its blank elements (those whose text holds
\* nothing but whitespace), the others in their order.
IsNonBlankPart(s, blocks) ==
  LET keep == {i \in 1..Len(blocks) :
                 \E j \in 1..Len(blocks[i].text) :
                   blocks[i].text[j] \notin Whitespace}
  IN /\ Len(s) = Cardinality(keep)
     /\ \A i \in keep : s[Cardinality({k \in keep : k <= i})] = blocks[i]

\* C25: generateDocument sends no request when every block is blank;
\* otherwise it sends one request with templatePath, the output format and
\* exactly the non-blank blocks in their order; at most one
\* process-structured request is in flight; a reply without success or a
\* failed request leaves currentStep and contentBlocks as they are.
C25_GenerateRequests ==
  /\ [](Len(generateRequests) <= 1)
  /\ [][/\ WizardDid("generateDocument") =>
             IF IsNonBlankPart(<<>>, contentBlocks)
             THEN generateRequests' = generateRequests
             ELSE /\ Len(generateRequests') = Len(generateRequests) + 1
                  /\ Last(generateRequests').template_path = templatePath
                  /\ Last(generateRequests').output_format = selectedFormat
                  /\ IsNonBlankPart(
                       Last(generateRequests').structured_content.elements,
                       contentBlocks)
        /\ (WizardDid("generate:nosuccess") \/ WizardDid("generate:throws")) =>
             UNCHANGED <<currentStep, contentBlocks>>]_vars

(***************************************************************************)
(* Claims about App                                                        *)
(***************************************************************************)
\* The step is the operation of App named name.
AppDid(name) == appOps' = appOps + 1 /\ appDid' = name

\* The step stores a value under one of the three items.
WritesStorage ==
  /\ ~AppDid("storedEarlier")
  /\ \E item \in {"api_key", "provider", "model"} :
       localStorage'[item] # "null" /\ localStorage'[item] # localStorage[item]

\* The refs of App and its requests in flight.
appRefs == <<apiKey, agentReady, selectedProvider, selectedModel, loading,
             messages, localStorage, initRequests, autoInitRequests, requests>>

\* What C26 says of every step but a failed autoInitAgent request:
\* agentReady becomes true only by a reply of /api/init that reports
\* success; the storage is written only by such a reply to initAgent, with
\* the key, the provider and the model; initAgent with an empty key sends
\* nothing and changes nothing.
AgentReadyBySuccess ==
  /\ (agentReady' /\ ~agentReady) =>
       (AppDid("init:success") \/ AppDid("autoInit:success"))
  /\ (AppDid("init:success") \/ AppDid("autoInit:success")) => agentReady'
  /\ WritesStorage => AppDid("init:success")
  /\ AppDid("init:success") =>
       localStorage' = [api_key |-> apiKey, provider |-> selectedProvider,
                        model |-> selectedModel]
  /\ (AppDid("initAgent") /\ apiKey = "") => UNCHANGED appRefs
  /\ (AppDid("initAgent") /\ apiKey # "") =>
       Len(initRequests') = Len(initRequests) + 1

\* C26 as stated: the above, and an autoInitAgent request that throws
\* removes the three stored items and leaves agentReady false.
C26_AgentReady ==
  [][/\ AgentReadyBySuccess
     /\ AppDid("autoInit:throws") =>
          (localStorage' = NothingStored /\ ~agentReady')]_vars

\* C26 amended: the above, and an autoInitAgent request that throws removes
\* the three stored items, also those a manual initAgent stored meanwhile,
\* and leaves agentReady as it is: false, unless a manual initAgent
\* succeeded while the request was in flight.
C26_AgentReadyUnchanged ==
  [][/\ AgentReadyBySuccess
     /\ AppDid("autoInit:throws") =>
          /\ localStorage' = NothingStored
          /\ UNCHANGED agentReady
          /\ agentReady =>
               \E i \in 1..Len(messages) : messages[i].role = "system"]_vars

\* The automatic request fails after a manual initAgent succeeded.
C26_Witness ==
  /\ appDid = "autoInit:throws"
  /\ agentReady
  /\ localStorage = NothingStored
  /\ apiKey = "sk-0"
  /\ Len(messages) = 1

\* The initAgent and processWithTemplate requests in flight.
Pending == Len(initRequests) + Len(requests)

\* C27: loading is true exactly while an initAgent or processWithTemplate
\* request is in flight, and at most one such request is in flight.
C27_LoadingIffPending ==
  /\ loading = (Pending > 0)
  /\ Pending <= 1

\* C28: whenever agentReady is false, messages is empty.
C28_NoMessagesLoggedOut == ~agentReady => messages = <<>>

\* C29: a confirmed logout removes the three stored items, empties apiKey
\* and selectedModel, sets selectedProvider to openai and agentReady to
\* false and empties messages; a declined one changes no ref, no stored item
\* and no request; neither changes loading or the requests in flight.
C29_LogoutFrame ==
  [][/\ AppDid("logout:confirmed") =>
          /\ localStorage' = NothingStored
          /\ apiKey' = ""
          /\ selectedModel' = ""
          /\ selectedProvider' = "openai"
          /\ ~agentReady'
          /\ messages' = <<>>
          /\ UNCHANGED <<loading, initRequests, autoInitRequests, requests>>
     /\ AppDid("logout:declined") => UNCHANGED appRefs]_vars

\* A confirmed logout while a processWithTemplate request is in flight.
C29_Witness ==
  /\ appDid = "logout:confirmed"
  /\ loading
  /\ Len(requests) = 1
  /\ messages = <<>>
  /\ localStorage = NothingStored
  /\ ~agentReady

\* C30: a processWithTemplate call appends one user message at the end of
\* messages and sends one request; when the request settles, a reply that
\* reports success appends one system message at the end, a request that
\* throws appends one error message at the end, a reply without success
\* appends nothing; the messages already in the list stay as they are.
C30_ProcessMessages ==
  [][/\ AppDid("processWithTemplate") =>
          /\ Len(messages') = Len(messages) + 1
          /\ Last(messages').role = "user"
          /\ IsPrefix(messages, messages')
          /\ Len(requests') = Len(requests) + 1
     /\ AppDid("process:success") =>
          /\ Len(messages') = Len(messages) + 1
          /\ Last(messages').role = "system"
          /\ IsPrefix(messages, messages')
     /\ AppDid("process:throws") =>
          /\ Len(messages') = Len(messages) + 1
          /\ Last(messages').role = "error"
          /\ IsPrefix(messages, messages')
     /\ AppDid("process:nosuccess") => messages' = messages
     /\ (AppDid("process:success") \/ AppDid("process:throws")
           \/ AppDid("process:nosuccess")) =>
          Len(requests') = Len(requests) - 1]_vars

\* The message of the login, the user message of the call, the error
\* message of its failed request.
C30_Witness ==
  /\ appDid = "process:throws"
  /\ Len(messages) = 3
  /\ messages[1].role = "system"
  /\ messages[2].role = "user"
  /\ messages[3].role = "error"
  /\ requests = <<>>

(***************************************************************************)
(* Claims about the ContentEditor                                          *)
(***************************************************************************)
EditorDid(name) == editorOps' = editorOps + 1 /\ editorDid' = name

\* The scheduler has nothing left to run.
Quiescent == queued = <<>>

\* C31, first part: once set up the editor holds at least one block in
\* every state, whatever was added, removed or assigned by the parent; and
\* whenever the watchers have run to the end, the parent holds the list of
\* the editor unless it still holds an empty array.
C31_NeverEmpty ==
  /\ editorCreated => Len(editorBlocks) >= 1
  /\ (editorCreated /\ Quiescent) =>
       (modelValue = editorBlocks \/ modelValue = <<>>)

\* C31, second part: removeBlock on a list of one block leaves the list as
\* it is, and addBlock lengthens the list by exactly one block with empty
\* text, placed at the end.
C31_AddRemove ==
  /\ (EditorDid("removeBlock") /\ Len(editorBlocks) = 1) =>
       (editorBlocks' = editorBlocks /\ queued' = queued)
  /\ EditorDid("addBlock") =>
       /\ Len(editorBlocks') = Len(editorBlocks) + 1
       /\ SubSeq(editorBlocks', 1, Len(editorBlocks)) = editorBlocks
       /\ editorBlocks'[Len(editorBlocks')].text = <<>>

\* C31: the editor always holds at least one block, removeBlock and addBlock
\* act as described, and after every change the two watchers stop: a state
\* with a queued watcher callback leads to a state with none.
C31_AtLeastOneBlock ==
  /\ []C31_NeverEmpty
  /\ [][C31_AddRemove]_vars
  /\ (~Quiescent ~> Quiescent)

\* The parent has assigned an empty array, the watcher of the prop has put
\* the default list into the editor and the other watcher is about to hand
\* that list to the parent.
C31_Witness ==
  /\ editorDid = "modelValueWatcher"
  /\ modelValue = <<>>
  /\ editorBlocks = << DefaultBlock >>
  /\ queued = <<"contentBlocks">>

(***************************************************************************)
(* Claims about the FilePreview                                            *)
(***************************************************************************)

\* What the refs hold when they describe a file: its name and the type of
\* its extension (or 'unsupported' when its read failed), its text in the
\* types that show text, and the rendering of its text in the markdown type.
Describes(file) ==
  /\ fileName = file.name
  /\ fileType \in {TypeOfExtension(ExtensionOf(file)), "unsupported"}
  /\ ReadsText(fileType) => textContent = file.content
  /\ fileType = "markdown" => renderedMarkdown = renderMarkdown(file.content)

\* C32, first part: with no load pending, loading is false and the refs
\* describe the file selected last.
C32_SettledDescribesLatest ==
  (pendingLoads = <<>> /\ lastSelected # Null) =>
     (~previewLoading /\ Describes(lastSelected))

\* C32, second part: a load whose read of the text fails ends with fileType
\* 'unsupported' and loading false.
C32_ThrowEndsUnsupported ==
  (previewDid' = "rejected" /\ pendingLoads' # pendingLoads) =>
     (fileType' = "unsupported" /\ ~previewLoading')

\* C32, third part: when the preview is closed, every object URL created so
\* far has been revoked.
C32_UrlsRevoked ==
  ~previewVisible => \A url \in 1..urlsCreated : url \in revoked

\* C32: the three parts together.
C32_PreviewOfLatestFile ==
  /\ []C32_SettledDescribesLatest
  /\ [][C32_ThrowEndsUnsupported]_vars
  /\ []C32_UrlsRevoked

====
